---------------------------- MODULE Spec2Model ----------------------------
(***************************************************************************)
(* Model of the reconciliation engine of Social_Media_Data_Fetcher:        *)
(* the Google Sheets row store (src/sheets/google_sheets.py), the URL      *)
(* normalizers (src/sheets/google_sheets.py, src/utils/url_parser.py) and  *)
(* the commands of src/main.py that drive them.                            *)
(*                                                                         *)
(* Python strings are sequences of one-character strings, so that          *)
(* lower/strip/rstrip/replace/urlparse/int act on characters as in the     *)
(* code.  A worksheet is a sequence of rows, a row a sequence of cells,    *)
(* a cell a Python string (what get_all_values returns).                   *)
(***************************************************************************)
EXTENDS Integers, Sequences, FiniteSets, TLC

VARIABLES sheet, last

vars == <<sheet, last>>

(***************************************************************************)
(* Bounds of the model.                                                    *)
(***************************************************************************)
MaxRows == 2

MaxCellLen == 2

MaxLabelLen == 2

(***************************************************************************)
(* Python str operations, on sequences of characters.                      *)
(***************************************************************************)
UPPER == <<"A","B","C","D","E","F","G","H","I","J","K","L","M",
           "N","O","P","Q","R","S","T","U","V","W","X","Y","Z">>

LOWER == <<"a","b","c","d","e","f","g","h","i","j","k","l","m",
           "n","o","p","q","r","s","t","u","v","w","x","y","z">>

WHITESPACE == {" ", "\n", "\t"}

DIGITS == <<"0","1","2","3","4","5","6","7","8","9">>

TO_LOWER == [c \in {UPPER[i] : i \in 1..26} |->
                LOWER[CHOOSE i \in 1..26 : UPPER[i] = c]]

TO_UPPER == [c \in {LOWER[i] : i \in 1..26} |->
                UPPER[CHOOSE i \in 1..26 : LOWER[i] = c]]

lower_char(c) == IF c \in DOMAIN TO_LOWER THEN TO_LOWER[c] ELSE c

upper_char(c) == IF c \in DOMAIN TO_UPPER THEN TO_UPPER[c] ELSE c

\* str.lower()
RECURSIVE lower(_)
lower(s) ==
    IF s = <<>> THEN <<>> ELSE <<lower_char(s[1])>> \o lower(Tail(s))

\* str.capitalize(): first character upper-cased, the rest lower-cased
capitalize(s) ==
    IF s = <<>> THEN <<>>
    ELSE <<upper_char(s[1])>> \o lower(Tail(s))

RECURSIVE lstrip(_, _)
lstrip(s, chars) ==
    IF s # <<>> /\ s[1] \in chars THEN lstrip(Tail(s), chars) ELSE s

RECURSIVE rstrip(_, _)
rstrip(s, chars) ==
    IF s # <<>> /\ s[Len(s)] \in chars
    THEN rstrip(SubSeq(s, 1, Len(s) - 1), chars)
    ELSE s

\* str.strip()
strip(s) == rstrip(lstrip(s, WHITESPACE), WHITESPACE)

startswith(s, p) == Len(s) >= Len(p) /\ SubSeq(s, 1, Len(p)) = p

\* the 1-based position of the leftmost occurrence of old in s, 0 when absent
first_occurrence(s, old) ==
    LET hits == {i \in 1..(Len(s) - Len(old) + 1) :
                    SubSeq(s, i, i + Len(old) - 1) = old}
    IN  IF hits = {} THEN 0 ELSE CHOOSE i \in hits : \A j \in hits : i <= j

\* str.replace(old, new) for a non-empty old: leftmost, non-overlapping
RECURSIVE replace(_, _, _)
replace_from(s, old, new, i) ==
    IF i = 0 THEN s
    ELSE SubSeq(s, 1, i - 1) \o new
             \o replace(SubSeq(s, i + Len(old), Len(s)), old, new)

replace(s, old, new) == replace_from(s, old, new, first_occurrence(s, old))

\* str.find(sub): 0-based index of the first occurrence, -1 when absent
RECURSIVE find_from(_, _, _)
find_from(s, sub, i) ==
    IF i + Len(sub) > Len(s) THEN -1
    ELSE IF SubSeq(s, i + 1, i + Len(sub)) = sub THEN i
    ELSE find_from(s, sub, i + 1)

find(s, sub) == find_from(s, sub, 0)

\* `sub in s`, and re.search of a pattern that has no metacharacters left
contains(s, sub) == find(s, sub) >= 0

\* s[:n] for 0 <= n
prefix(s, n) == SubSeq(s, 1, IF n < Len(s) THEN n ELSE Len(s))

\* s[n:] for 0 <= n
suffix(s, n) == SubSeq(s, n + 1, Len(s))

\* str(n) of an integer
RECURSIVE str_nat(_)
str_nat(n) ==
    IF n < 10 THEN <<DIGITS[n + 1]>>
    ELSE str_nat(n \div 10) \o <<DIGITS[(n % 10) + 1]>>

str_int(n) == IF n < 0 THEN <<"-">> \o str_nat(0 - n) ELSE str_nat(n)

\* "%02d" / "%04d" of strftime
RECURSIVE zero_pad(_, _)
zero_pad(s, width) == IF Len(s) >= width THEN s ELSE zero_pad(<<"0">> \o s, width)

(***************************************************************************)
(* String literals of the source.                                          *)
(***************************************************************************)
WWW_DOT == <<"w","w","w",".">>

X_COM == <<"x",".","c","o","m">>

TWITTER_COM == <<"t","w","i","t","t","e","r",".","c","o","m">>

SLASH == <<"/">>

HTTPS == <<"h","t","t","p","s",":","/","/">>

(***************************************************************************)
(* GoogleSheetsClient._normalize_url                                       *)
(***************************************************************************)
_normalize_url(url) ==
    LET u1 == strip(lower(url))
        u2 == rstrip(u1, {"/"})
        u3 == replace(u2, WWW_DOT, <<>>)
    IN  replace(u3, X_COM \o SLASH, TWITTER_COM \o SLASH)

(***************************************************************************)
(* urllib.parse.urlparse, as URLParser.normalize_url uses it: the scheme,  *)
(* the netloc and the path of the URL; raised is the ValueError            *)
(* ("Invalid IPv6 URL") of a netloc with an unmatched bracket.             *)
(***************************************************************************)
SCHEME_CHARS ==
    {LOWER[i] : i \in 1..26} \cup {UPPER[i] : i \in 1..26}
        \cup {DIGITS[i] : i \in 1..10} \cup {"+", "-", "."}

USES_PARAMS == {<<>>, <<"h","t","t","p">>, <<"h","t","t","p","s">>, <<"f","t","p">>}

is_alpha(c) == c \in DOMAIN TO_LOWER \/ c \in DOMAIN TO_UPPER

\* the characters "\t" and "\n" are removed from the URL before it is split
remove_unsafe(s) == SelectSeq(s, LAMBDA c : c \notin {"\t", "\n"})

\* index (0-based) of the first character of s, from start on, that is in
\* delims; Len(s) when there is none (_splitnetloc)
RECURSIVE first_delim(_, _, _)
first_delim(s, delims, start) ==
    IF start >= Len(s) THEN Len(s)
    ELSE IF s[start + 1] \in delims THEN start
    ELSE first_delim(s, delims, start + 1)

\* index (0-based) of the last occurrence of c in s, -1 when absent (rfind)
RECURSIVE rfind_char(_, _, _)
rfind_char(s, c, i) ==
    IF i = 0 THEN -1
    ELSE IF s[i] = c THEN i - 1
    ELSE rfind_char(s, c, i - 1)

\* the part of s before the first occurrence of c (s.split(c, 1)[0])
before_char(s, c) ==
    LET i == find(s, <<c>>) IN IF i < 0 THEN s ELSE prefix(s, i)

\* urllib.parse._splitparams, its first component
splitparams_path(url) ==
    LET slash == rfind_char(url, "/", Len(url))
        i == IF slash >= 0
             THEN LET j == find(suffix(url, slash), <<";">>)
                  IN  IF j < 0 THEN -1 ELSE slash + j
             ELSE find(url, <<";">>)
    IN  IF i < 0 THEN url ELSE prefix(url, i)

\* the result of urlsplit, from the text after the netloc on
parse_result(scheme, netloc, url4) ==
    [raised |-> \/ (contains(netloc, <<"[">>) /\ ~contains(netloc, <<"]">>))
                \/ (contains(netloc, <<"]">>) /\ ~contains(netloc, <<"[">>)),
     scheme |-> scheme,
     netloc |-> netloc,
     path |-> IF scheme \in USES_PARAMS /\ contains(url4, <<";">>)
              THEN splitparams_path(url4)
              ELSE url4]

\* fragment and query are cut off the rest
parse_path(scheme, netloc, url3) ==
    parse_result(scheme, netloc, before_char(before_char(url3, "#"), "?"))

\* the netloc is the text after "//" up to the first of "/", "?", "#"
split_netloc_at(scheme, url2, delim) ==
    parse_path(scheme, SubSeq(url2, 3, delim), suffix(url2, delim))

split_netloc(scheme, url2) ==
    IF startswith(url2, <<"/", "/">>)
    THEN split_netloc_at(scheme, url2, first_delim(url2, {"/", "?", "#"}, 2))
    ELSE parse_path(scheme, <<>>, url2)

\* the scheme is the text before the first ":", when it is a scheme name
split_scheme(url1, colon) ==
    IF /\ colon > 0
       /\ is_alpha(url1[1])
       /\ \A k \in 1..colon : url1[k] \in SCHEME_CHARS
    THEN split_netloc(lower(prefix(url1, colon)), suffix(url1, colon + 1))
    ELSE split_netloc(<<>>, url1)

urlsplit(url1) == split_scheme(url1, find(url1, <<":">>))

\* urllib.parse.urlparse: [raised, scheme, netloc, path]; raised is the
\* ValueError of a netloc with an unmatched bracket
urlparse(url0) == urlsplit(remove_unsafe(lstrip(url0, WHITESPACE)))

(***************************************************************************)
(* URLParser.normalize_url: [raised, value]                                *)
(***************************************************************************)
normalized_host(host0) == IF host0 = X_COM THEN TWITTER_COM ELSE host0

normalized(parsed) ==
    IF parsed.raised
    THEN [raised |-> TRUE, value |-> <<>>]
    ELSE [raised |-> FALSE,
          value |-> parsed.scheme \o <<":", "/", "/">>
                        \o normalized_host(replace(parsed.netloc, WWW_DOT, <<>>))
                        \o rstrip(parsed.path, {"/"})]

normalize_url(url) == normalized(urlparse(lower(strip(url))))

(***************************************************************************)
(* Python int(s) of a string, base 10: surrounding whitespace is ignored,  *)
(* one sign is allowed, digits may be grouped by single underscores.       *)
(* ok is FALSE where int raises ValueError.                                *)
(***************************************************************************)
DIGIT_VALUE == [c \in {DIGITS[i] : i \in 1..10} |->
                   (CHOOSE i \in 1..10 : DIGITS[i] = c) - 1]

is_digit(c) == c \in DOMAIN DIGIT_VALUE

digit_value(c) == DIGIT_VALUE[c]

\* digits with single underscores between them
valid_digits(s) ==
    /\ s # <<>>
    /\ is_digit(s[1])
    /\ is_digit(s[Len(s)])
    /\ \A i \in 1..Len(s) : is_digit(s[i]) \/ s[i] = "_"
    /\ \A i \in 1..(Len(s) - 1) : ~(s[i] = "_" /\ s[i + 1] = "_")

RECURSIVE digits_value(_, _)
digits_value(s, acc) ==
    IF s = <<>> THEN acc
    ELSE IF s[1] = "_" THEN digits_value(Tail(s), acc)
    ELSE digits_value(Tail(s), acc * 10 + digit_value(s[1]))

\* the digits after the sign, and whether the sign is "-"
int_of_digits(body, negative) ==
    IF valid_digits(body)
    THEN [ok |-> TRUE,
          value |-> IF negative THEN 0 - digits_value(body, 0)
                    ELSE digits_value(body, 0)]
    ELSE [ok |-> FALSE, value |-> 0]

int_of_stripped(s) ==
    IF s # <<>> /\ s[1] \in {"+", "-"}
    THEN int_of_digits(Tail(s), s[1] = "-")
    ELSE int_of_digits(s, FALSE)

int_of_str(s) == int_of_stripped(strip(s))

(***************************************************************************)
(* safe_int of GoogleSheetsClient.get_all_rows: [raised, value]            *)
(***************************************************************************)
\* a faulty variant: the ValueError of int is not caught
int_uncaught(parsed) ==
    IF parsed.ok
    THEN [raised |-> FALSE, value |-> parsed.value]
    ELSE [raised |-> TRUE, value |-> 0]

\* the try block: the value of int, or 0 on ValueError
int_or_zero(parsed) ==
    IF parsed.ok
    THEN [raised |-> FALSE, value |-> parsed.value]
    ELSE [raised |-> FALSE, value |-> 0]

safe_int(val) ==
    IF val = <<>> THEN [raised |-> FALSE, value |-> 0]
    ELSE int_or_zero(int_of_str(replace(val, <<",">>, <<>>)))

(***************************************************************************)
(* GoogleSheetsClient: the header row and the column indices (0-based).    *)
(***************************************************************************)
EXPECTED_HEADERS ==
    << <<"D","a","t","e">>,
       <<"T","i","m","e">>,
       <<"P","l","a","t","f","o","r","m">>,
       <<"P","o","s","t"," ","U","R","L">>,
       <<"C","a","p","t","i","o","n">>,
       <<"V","i","e","w","s">>,
       <<"I","n","t","e","r","a","c","t","i","o","n","s">>,
       <<"R","e","a","c","h">>,
       <<"F","o","l","l","o","w","s">>,
       <<"L","i","n","k"," ","C","l","i","c","k","s">>,
       <<"L","i","k","e","s">>,
       <<"C","o","m","m","e","n","t","s">>,
       <<"S","h","a","r","e","s">> >>

COL_DATE == 0

COL_TIME == 1

COL_PLATFORM == 2

COL_URL == 3

COL_CAPTION == 4

COL_VIEWS == 5

COL_INTERACTIONS == 6

COL_REACH == 7

COL_FOLLOWS == 8

COL_LINK_CLICKS == 9

COL_LIKES == 10

COL_COMMENTS == 11

COL_SHARES == 12

\* the eight metric fields of PostMetrics and SheetRow, in column order F..M
METRIC_FIELDS ==
    <<"views", "interactions", "reach", "follows",
      "link_clicks", "likes", "comments", "shares">>

(***************************************************************************)
(* The worksheet as gspread shows it.                                      *)
(***************************************************************************)
EMPTY_CELL == <<>>

\* a row without its trailing empty cells
RECURSIVE trim_cells(_)
trim_cells(row) ==
    IF row # <<>> /\ row[Len(row)] = EMPTY_CELL
    THEN trim_cells(SubSeq(row, 1, Len(row) - 1))
    ELSE row

\* the rows without the trailing empty rows
RECURSIVE trim_rows(_)
trim_rows(rows) ==
    IF rows # <<>> /\ trim_cells(rows[Len(rows)]) = <<>>
    THEN trim_rows(SubSeq(rows, 1, Len(rows) - 1))
    ELSE rows

max_width(rows) ==
    IF rows = <<>> THEN 0
    ELSE CHOOSE w \in {Len(rows[i]) : i \in 1..Len(rows)} :
             \A i \in 1..Len(rows) : Len(rows[i]) <= w

RECURSIVE empty_cells(_)
empty_cells(n) == IF n <= 0 THEN <<>> ELSE <<EMPTY_CELL>> \o empty_cells(n - 1)

pad_cells(row, width) == row \o empty_cells(width - Len(row))

RECURSIVE trim_each(_)
trim_each(rows) ==
    IF rows = <<>> THEN <<>>
    ELSE <<trim_cells(rows[1])>> \o trim_each(Tail(rows))

RECURSIVE pad_each(_, _)
pad_each(rows, width) ==
    IF rows = <<>> THEN <<>>
    ELSE <<pad_cells(rows[1], width)>> \o pad_each(Tail(rows), width)

pad_used(rows) == pad_each(rows, max_width(rows))

\* Worksheet.get_all_values(): the used rows, each padded to the width of
\* the widest
get_all_values(sh) == pad_used(trim_rows(trim_each(sh)))

\* Worksheet.row_values(1)
row_values_1(sh) == IF Len(sh) >= 1 THEN trim_cells(sh[1]) ELSE <<>>

\* Worksheet.update("<col><n>:<col><n>", [values]): one range write into
\* row n, from 1-based column first_col on
update_range(sh, n, first_col, values) ==
    LET height == IF n > Len(sh) THEN n ELSE Len(sh)
        old(i) == IF i <= Len(sh) THEN sh[i] ELSE <<>>
        last_col == first_col + Len(values) - 1
        width == IF Len(old(n)) > last_col THEN Len(old(n)) ELSE last_col
        new_row == [c \in 1..width |->
                      IF c >= first_col /\ c <= last_col THEN values[c - first_col + 1]
                      ELSE IF c <= Len(old(n)) THEN old(n)[c]
                      ELSE EMPTY_CELL]
    IN  [i \in 1..height |-> IF i = n THEN new_row ELSE old(i)]

\* Worksheet.append_row(values): a new row below the last used row
append_row(sh, values) == Append(trim_rows(sh), values)

\* a number written to a cell is read back as its decimal text
cell_of_int(v) == str_int(v)

(***************************************************************************)
(* GoogleSheetsClient.ensure_headers                                       *)
(***************************************************************************)
\* a first row with a cell in it taken for the header row
headers_absent(first_row) == first_row = <<>>

\* the condition under which ensure_headers writes
headers_missing(first_row) == first_row = <<>> \/ first_row # EXPECTED_HEADERS

ensure_headers(sh) ==
    IF headers_missing(row_values_1(sh))
    THEN update_range(sh, 1, 1, EXPECTED_HEADERS)
    ELSE sh

(***************************************************************************)
(* GoogleSheetsClient.get_all_rows: [raised, rows]                         *)
(***************************************************************************)
cell_or_empty(row, col) == IF Len(row) > col THEN row[col + 1] ELSE <<>>

metric_cell(row, col) ==
    IF Len(row) > col THEN safe_int(row[col + 1])
    ELSE [raised |-> FALSE, value |-> 0]

sheet_row(i, row) ==
    [row_number |-> i,
     date |-> cell_or_empty(row, COL_DATE),
     time |-> cell_or_empty(row, COL_TIME),
     platform |-> cell_or_empty(row, COL_PLATFORM),
     post_url |-> cell_or_empty(row, COL_URL),
     caption |-> cell_or_empty(row, COL_CAPTION),
     views |-> metric_cell(row, COL_VIEWS).value,
     interactions |-> metric_cell(row, COL_INTERACTIONS).value,
     reach |-> metric_cell(row, COL_REACH).value,
     follows |-> metric_cell(row, COL_FOLLOWS).value,
     link_clicks |-> metric_cell(row, COL_LINK_CLICKS).value,
     likes |-> metric_cell(row, COL_LIKES).value,
     comments |-> metric_cell(row, COL_COMMENTS).value,
     shares |-> metric_cell(row, COL_SHARES).value]

\* a row kept for having four cells, whatever the URL cell holds
has_cells(row) == Len(row) >= 4

\* the row is kept: it has a URL cell and the cell is not empty
has_url(row) == Len(row) >= 4 /\ row[COL_URL + 1] # <<>>

row_raises(row) ==
    \E col \in COL_VIEWS..COL_SHARES : metric_cell(row, col).raised

\* the loop over all_values[1:], from row number i on
RECURSIVE collect_rows(_, _)
collect_rows(all_values, i) ==
    IF i > Len(all_values) THEN <<>>
    ELSE IF has_url(all_values[i])
         THEN <<sheet_row(i, all_values[i])>> \o collect_rows(all_values, i + 1)
         ELSE collect_rows(all_values, i + 1)

rows_of_values(all_values) ==
    IF Len(all_values) <= 1
    THEN [raised |-> FALSE, rows |-> <<>>]
    ELSE IF \E i \in 2..Len(all_values) :
                has_url(all_values[i]) /\ row_raises(all_values[i])
         THEN [raised |-> TRUE, rows |-> <<>>]
         ELSE [raised |-> FALSE, rows |-> collect_rows(all_values, 2)]

get_all_rows(sh) == rows_of_values(get_all_values(sh))

(***************************************************************************)
(* GoogleSheetsClient.find_row_by_url: [raised, found, row]                *)
(***************************************************************************)
NO_ROW == [row_number |-> 0]

\* a scan that compares the text of the URL cell as it is
RECURSIVE first_match_as_typed(_, _, _)
first_match_as_typed(rows, normalized_target, i) ==
    IF i > Len(rows) THEN [raised |-> FALSE, found |-> FALSE, row |-> NO_ROW]
    ELSE IF rows[i].post_url = normalized_target
         THEN [raised |-> FALSE, found |-> TRUE, row |-> rows[i]]
         ELSE first_match_as_typed(rows, normalized_target, i + 1)

\* the loop over rows, from index i on: the first row whose normalized
\* URL is the normalized target
RECURSIVE first_match(_, _, _)
first_match(rows, normalized_target, i) ==
    IF i > Len(rows) THEN [raised |-> FALSE, found |-> FALSE, row |-> NO_ROW]
    ELSE IF _normalize_url(rows[i].post_url) = normalized_target
         THEN [raised |-> FALSE, found |-> TRUE, row |-> rows[i]]
         ELSE first_match(rows, normalized_target, i + 1)

find_in_rows(got, normalized_target) ==
    IF got.raised THEN [raised |-> TRUE, found |-> FALSE, row |-> NO_ROW]
    ELSE first_match(got.rows, normalized_target, 1)

find_row_by_url(sh, post_url) ==
    find_in_rows(get_all_rows(sh), _normalize_url(post_url))

(***************************************************************************)
(* GoogleSheetsClient.update_row_metrics: the sheet after the range write  *)
(***************************************************************************)
metric_values(metrics) ==
    [k \in 1..Len(METRIC_FIELDS) |-> cell_of_int(metrics[METRIC_FIELDS[k]])]

\* the range write started one column early, in E
update_from_caption_column(sh, row_number, metrics) ==
    update_range(sh, row_number, COL_VIEWS, metric_values(metrics))

update_row_metrics(sh, row_number, metrics) ==
    update_range(sh, row_number, COL_VIEWS + 1, metric_values(metrics))

(***************************************************************************)
(* GoogleSheetsClient.add_post: [sheet, row_number]                        *)
(***************************************************************************)
CAPTION_LIMIT == 200

ELLIPSIS == <<".", ".", ".">>

\* created_time.strftime("%Y-%m-%d") and created_time.strftime("%H:%M")
strftime_date(t) ==
    zero_pad(str_int(t.year), 4) \o <<"-">> \o zero_pad(str_int(t.month), 2)
        \o <<"-">> \o zero_pad(str_int(t.day), 2)

strftime_time(t) ==
    zero_pad(str_int(t.hour), 2) \o <<":">> \o zero_pad(str_int(t.minute), 2)

\* the caption cut and not flattened
caption_not_flattened(caption) ==
    IF Len(caption) > CAPTION_LIMIT
    THEN prefix(caption, CAPTION_LIMIT) \o ELLIPSIS
    ELSE caption

sheet_caption(caption) ==
    LET cut == IF Len(caption) > CAPTION_LIMIT
               THEN prefix(caption, CAPTION_LIMIT) \o ELLIPSIS
               ELSE caption
    IN  replace(cut, <<"\n">>, <<" ">>)

new_row(metrics) ==
    <<strftime_date(metrics.created_time),
      strftime_time(metrics.created_time),
      capitalize(metrics.platform),
      metrics.post_url,
      sheet_caption(metrics.caption)>> \o metric_values(metrics)

appended_result(appended) ==
    [sheet |-> appended, row_number |-> Len(get_all_values(appended))]

add_post(sh, metrics) == appended_result(append_row(sh, new_row(metrics)))

(***************************************************************************)
(* GoogleSheetsClient.update_or_add_post: [raised, sheet, action,          *)
(* row_number]                                                             *)
(***************************************************************************)
added_result(added) ==
    [raised |-> FALSE, sheet |-> added.sheet,
     action |-> "added", row_number |-> added.row_number]

update_or_add(sh, metrics, existing_row) ==
    IF existing_row.raised
    THEN [raised |-> TRUE, sheet |-> sh, action |-> "none", row_number |-> 0]
    ELSE IF existing_row.found
    THEN [raised |-> FALSE,
          sheet |-> update_row_metrics(sh, existing_row.row.row_number, metrics),
          action |-> "updated",
          row_number |-> existing_row.row.row_number]
    ELSE added_result(add_post(sh, metrics))

update_or_add_post(sh, metrics) ==
    update_or_add(sh, metrics, find_row_by_url(sh, metrics.post_url))

(***************************************************************************)
(* GoogleSheetsClient.batch_update_metrics.                                *)
(* The loop makes store calls in a fixed order: per record one read        *)
(* (find_row_by_url), then, unless dry_run, one write (update of the       *)
(* range, or append_row) and after an append one more read (the row        *)
(* count).  fail is the ordinal of the store call that raises (0: none);   *)
(* the exception leaves the loop and no summary is returned.               *)
(* Result: [raised, sheet, summary, calls]                                 *)
(***************************************************************************)
EMPTY_SUMMARY == [updated |-> 0, added |-> 0, skipped |-> 0, details |-> <<>>]

\* a descriptor with the values before and after exchanged
would_update_detail_exchanged(metrics, existing_row) ==
    [action |-> "would_update", url |-> metrics.post_url,
     row |-> existing_row.row_number,
     old_views |-> metrics.views, new_views |-> existing_row.views,
     old_interactions |-> metrics.interactions,
     new_interactions |-> existing_row.interactions,
     old_reach |-> metrics.reach, new_reach |-> existing_row.reach]

would_update_detail(metrics, existing_row) ==
    [action |-> "would_update", url |-> metrics.post_url,
     row |-> existing_row.row_number,
     old_views |-> existing_row.views, new_views |-> metrics.views,
     old_interactions |-> existing_row.interactions,
     new_interactions |-> metrics.interactions,
     old_reach |-> existing_row.reach, new_reach |-> metrics.reach]

updated_detail(metrics, existing_row) ==
    [action |-> "updated", url |-> metrics.post_url,
     row |-> existing_row.row_number]

would_add_detail(metrics) ==
    [action |-> "would_add", url |-> metrics.post_url,
     platform |-> metrics.platform, views |-> metrics.views,
     interactions |-> metrics.interactions, reach |-> metrics.reach]

\* a descriptor that names the row after the one that was written
added_detail_row_after(metrics, row_number) ==
    [action |-> "added", url |-> metrics.post_url, row |-> row_number + 1]

added_detail(metrics, row_number) ==
    [action |-> "added", url |-> metrics.post_url, row |-> row_number]

count_updated(summary, detail) ==
    [summary EXCEPT !.details = Append(@, detail), !.updated = @ + 1]

\* an added record counted without its descriptor
count_without_detail(summary, detail) == [summary EXCEPT !.added = @ + 1]

count_added(summary, detail) ==
    [summary EXCEPT !.details = Append(@, detail), !.added = @ + 1]

\* one iteration of the loop, for the record metrics: the branch taken on
\* what find_row_by_url returned (existing_row) and what add_post would do
batch_branch(st, metrics, dry_run, fail, existing_row, added) ==
    LET read1 == st.calls + 1
        write == st.calls + 2
        read2 == st.calls + 3
    IN  IF fail = read1 \/ existing_row.raised
        THEN [st EXCEPT !.raised = TRUE, !.calls = read1]
        ELSE IF existing_row.found
        THEN IF dry_run
             THEN [st EXCEPT !.calls = read1,
                      !.summary = count_updated(@,
                          would_update_detail(metrics, existing_row.row))]
             ELSE IF fail = write
             THEN [st EXCEPT !.raised = TRUE, !.calls = write]
             ELSE [st EXCEPT !.calls = write,
                      !.sheet = update_row_metrics(@, existing_row.row.row_number,
                                                   metrics),
                      !.summary = count_updated(@,
                          updated_detail(metrics, existing_row.row))]
        ELSE IF dry_run
             THEN [st EXCEPT !.calls = read1,
                      !.summary = count_added(@, would_add_detail(metrics))]
             ELSE IF fail = write
             THEN [st EXCEPT !.raised = TRUE, !.calls = write]
             ELSE IF fail = read2
             THEN [st EXCEPT !.raised = TRUE, !.calls = read2,
                      !.sheet = added.sheet]
             ELSE [st EXCEPT !.calls = read2,
                      !.sheet = added.sheet,
                      !.summary = count_added(@,
                          added_detail(metrics, added.row_number))]

batch_record(st, metrics, dry_run, fail) ==
    batch_branch(st, metrics, dry_run, fail,
                 find_row_by_url(st.sheet, metrics.post_url),
                 add_post(st.sheet, metrics))

\* a loop that goes on with the next record after a store call has failed
RECURSIVE batch_loop_continuing(_, _, _, _, _)
batch_loop_continuing(st, metrics_list, i, dry_run, fail) ==
    IF i > Len(metrics_list) THEN st
    ELSE batch_loop_continuing(batch_record(st, metrics_list[i], dry_run, fail),
                               metrics_list, i + 1, dry_run, fail)

RECURSIVE batch_loop(_, _, _, _, _)
batch_loop(st, metrics_list, i, dry_run, fail) ==
    IF i > Len(metrics_list) \/ st.raised THEN st
    ELSE batch_loop(batch_record(st, metrics_list[i], dry_run, fail),
                    metrics_list, i + 1, dry_run, fail)

\* a faulty variant: the loop runs as if dry_run were not set
batch_ignoring_dry_run(sh, metrics_list, dry_run, fail) ==
    batch_loop([raised |-> FALSE, sheet |-> sh, summary |-> EMPTY_SUMMARY,
                calls |-> 0],
               metrics_list, 1, FALSE, fail)

batch_update_metrics(sh, metrics_list, dry_run, fail) ==
    batch_loop([raised |-> FALSE, sheet |-> sh, summary |-> EMPTY_SUMMARY,
                calls |-> 0],
               metrics_list, 1, dry_run, fail)

(***************************************************************************)
(* URLParser.detect_platform: the platform name, NO_PLATFORM for None.     *)
(* Each pattern is a literal text (its dots are escaped), so re.search is  *)
(* a substring test on the lower-cased URL.                                *)
(***************************************************************************)
PLATFORM_PATTERNS ==
    <<[platform |-> <<"f","a","c","e","b","o","o","k">>,
       patterns |-> <<<<"f","a","c","e","b","o","o","k",".","c","o","m">>,
                      <<"f","b",".","c","o","m">>,
                      <<"f","b",".","w","a","t","c","h">>,
                      <<"f","b",".","m","e">>>>],
      [platform |-> <<"i","n","s","t","a","g","r","a","m">>,
       patterns |-> <<<<"i","n","s","t","a","g","r","a","m",".","c","o","m">>,
                      <<"i","n","s","t","a","g","r",".","a","m">>>>],
      [platform |-> <<"t","w","i","t","t","e","r">>,
       patterns |-> <<<<"t","w","i","t","t","e","r",".","c","o","m">>,
                      <<"x",".","c","o","m">>,
                      <<"t",".","c","o">>>>],
      [platform |-> <<"t","i","k","t","o","k">>,
       patterns |-> <<<<"t","i","k","t","o","k",".","c","o","m">>,
                      <<"v","m",".","t","i","k","t","o","k",".","c","o","m">>>>],
      [platform |-> <<"y","o","u","t","u","b","e">>,
       patterns |-> <<<<"y","o","u","t","u","b","e",".","c","o","m">>,
                      <<"y","o","u","t","u",".","b","e">>>>],
      [platform |-> <<"l","i","n","k","e","d","i","n">>,
       patterns |-> <<<<"l","i","n","k","e","d","i","n",".","c","o","m">>>>]>>

NO_PLATFORM == <<>>

detect_platform(url) ==
    LET url_lower == lower(url)
        matches(p) == \E k \in 1..Len(PLATFORM_PATTERNS[p].patterns) :
                          contains(url_lower, PLATFORM_PATTERNS[p].patterns[k])
        hits == {p \in 1..Len(PLATFORM_PATTERNS) : matches(p)}
    IN  IF hits = {} THEN NO_PLATFORM
        ELSE PLATFORM_PATTERNS[CHOOSE p \in hits : \A q \in hits : p <= q].platform

FACEBOOK == PLATFORM_PATTERNS[1].platform

INSTAGRAM == PLATFORM_PATTERNS[2].platform

TWITTER == PLATFORM_PATTERNS[3].platform

(***************************************************************************)
(* main.run: ensure_headers, the three fetches, then one batch.            *)
(* fb, ig, tw are what each platform's fetch gives: [status, posts] with   *)
(* status "off" (client not configured), "error" (the fetch raised and     *)
(* the exception was caught) or "ok".  Result: [raised, sheet, summary]    *)
(***************************************************************************)
fetched_posts(outcome) == IF outcome.status = "ok" THEN outcome.posts ELSE <<>>

\* a run that ends at the first fetch that raises, with nothing passed on
run_stopping_at_error(sh, dry_run, fb, ig, tw, fail) ==
    LET with_headers == ensure_headers(sh)
        stopped == fb.status = "error" \/ ig.status = "error" \/ tw.status = "error"
        all_metrics == fetched_posts(fb) \o fetched_posts(ig) \o fetched_posts(tw)
        batch == batch_update_metrics(with_headers, all_metrics, dry_run, fail)
    IN  IF stopped \/ all_metrics = <<>>
        THEN [raised |-> stopped, sheet |-> with_headers, summary |-> EMPTY_SUMMARY,
              all_metrics |-> <<>>, batch_called |-> FALSE]
        ELSE [raised |-> batch.raised, sheet |-> batch.sheet,
              summary |-> batch.summary, all_metrics |-> all_metrics,
              batch_called |-> TRUE]

run(sh, dry_run, fb, ig, tw, fail) ==
    LET with_headers == ensure_headers(sh)
        all_metrics == fetched_posts(fb) \o fetched_posts(ig) \o fetched_posts(tw)
        batch == batch_update_metrics(with_headers, all_metrics, dry_run, fail)
    IN  IF all_metrics = <<>>
        THEN [raised |-> FALSE, sheet |-> with_headers, summary |-> EMPTY_SUMMARY,
              all_metrics |-> all_metrics, batch_called |-> FALSE]
        ELSE [raised |-> batch.raised, sheet |-> batch.sheet,
              summary |-> batch.summary, all_metrics |-> all_metrics,
              batch_called |-> TRUE]

(***************************************************************************)
(* main.update_sheet: ensure_headers, read the rows, fetch fresh metrics   *)
(* for the rows of the three platforms, write them unless dry_run.         *)
(* clients is the set of configured platforms; fresh[n] is what            *)
(* get_metrics_for_url gives for the URL of row n: [status, metrics] with  *)
(* status "ok", "none" (post not found) or "error" (raised, caught).       *)
(* Result: [sheet, updates] with updates the rows to write, in order.      *)
(***************************************************************************)
rows_of_platform(rows, platform) ==
    SelectSeq(rows, LAMBDA row : detect_platform(row.post_url) = platform)

RECURSIVE apply_updates(_, _, _)
apply_updates(sh, updates, fresh) ==
    IF updates = <<>> THEN sh
    ELSE apply_updates(
             update_row_metrics(sh, updates[1].row_number,
                                fresh[updates[1].row_number].metrics),
             Tail(updates), fresh)

update_sheet(sh, dry_run, clients, fresh) ==
    LET with_headers == ensure_headers(sh)
        got == get_all_rows(with_headers)
        rows == got.rows
        wanted(platform) ==
            IF platform \in clients THEN rows_of_platform(rows, platform) ELSE <<>>
        candidates == wanted(FACEBOOK) \o wanted(INSTAGRAM) \o wanted(TWITTER)
        updates == SelectSeq(candidates,
                             LAMBDA row : fresh[row.row_number].status = "ok")
    IN  IF got.raised \/ rows = <<>> \/ updates = <<>> \/ dry_run
        THEN [sheet |-> with_headers, updates |-> updates]
        ELSE [sheet |-> apply_updates(with_headers, updates, fresh),
              updates |-> updates]

(***************************************************************************)
(* The inputs of the model: post URLs, metric values, PostMetrics records  *)
(* and the worksheets the program may be started on.                       *)
(***************************************************************************)
URL_FB == <<"h","t","t","p","s",":","/","/","w","w","w",".","f","a","c","e","b","o","o","k",".","c","o","m","/","p","/","1","0","0","/","p","o","s","t","s","/","5","5","5">>

\* the same post without `www.` and with a trailing slash
URL_FB_BARE == <<"h","t","t","p","s",":","/","/","f","a","c","e","b","o","o","k",".","c","o","m","/","p","/","1","0","0","/","p","o","s","t","s","/","5","5","5","/">>

\* the same post in another letter case
URL_FB_CASE == <<"h","t","t","p","s",":","/","/","w","w","w",".","F","a","c","e","b","o","o","k",".","c","o","m","/","P","/","1","0","0","/","p","o","s","t","s","/","5","5","5">>

\* the same post with a query string
URL_FB_QUERY == <<"h","t","t","p","s",":","/","/","w","w","w",".","f","a","c","e","b","o","o","k",".","c","o","m","/","p","/","1","0","0","/","p","o","s","t","s","/","5","5","5","?","r","e","f","=","1">>

URL_X == <<"h","t","t","p","s",":","/","/","x",".","c","o","m","/","i","/","s","t","a","t","u","s","/","1">>

URL_TWITTER == <<"h","t","t","p","s",":","/","/","t","w","i","t","t","e","r",".","c","o","m","/","i","/","s","t","a","t","u","s","/","1">>

CAPTION == <<"h","i">>

TIME_A == [year |-> 2024, month |-> 3, day |-> 9, hour |-> 8, minute |-> 5]

METRICS_A ==
    [views |-> 10, interactions |-> 3, reach |-> 8, follows |-> 0,
     link_clicks |-> 1, likes |-> 2, comments |-> 0, shares |-> 1]

METRICS_B ==
    [views |-> 25, interactions |-> 1234, reach |-> 20, follows |-> 1,
     link_clicks |-> 2, likes |-> 7, comments |-> 3, shares |-> 4]

\* PostMetrics(post_id, post_url, platform, created_time, caption, ...)
post_metrics(post_url, platform, m) ==
    [post_id |-> "id", post_url |-> post_url, platform |-> platform,
     created_time |-> TIME_A, caption |-> CAPTION,
     views |-> m.views, interactions |-> m.interactions, reach |-> m.reach,
     follows |-> m.follows, link_clicks |-> m.link_clicks, likes |-> m.likes,
     comments |-> m.comments, shares |-> m.shares]

Posts ==
    {post_metrics(URL_FB, FACEBOOK, METRICS_A),
     post_metrics(URL_FB, FACEBOOK, METRICS_B),
     post_metrics(URL_FB_BARE, FACEBOOK, METRICS_B),
     post_metrics(URL_FB_QUERY, FACEBOOK, METRICS_B)}

\* the batches given to batch_update_metrics
Batches ==
    {<<>>,
     <<post_metrics(URL_FB, FACEBOOK, METRICS_A)>>,
     <<post_metrics(URL_FB, FACEBOOK, METRICS_B)>>,
     <<post_metrics(URL_FB, FACEBOOK, METRICS_A),
       post_metrics(URL_FB_BARE, FACEBOOK, METRICS_B)>>,
     <<post_metrics(URL_X, TWITTER, METRICS_A),
       post_metrics(URL_FB, FACEBOOK, METRICS_B)>>}

\* the store call of a batch that fails: none (0), or one of the reads of
\* a dry run (one read per record)
FailPoints(metrics_list, dry_run) ==
    IF dry_run THEN 0..Len(metrics_list) ELSE {0}

\* a row as a person typed it: metric cells with thousands separators
TYPED_ROW ==
    <<<<"2","0","2","4","-","0","3","-","0","1">>, <<"0","9",":","3","0">>, <<"T","w","i","t","t","e","r">>, URL_TWITTER, CAPTION,
      <<"1",",","2","3","4">>, <<>>, <<"n","/","a">>>>

\* a row without a URL (a note between the data rows)
NOTE_ROW == <<<<"2","0","2","4","-","0","3","-","0","1">>, <<>>, <<>>, <<>>, CAPTION>>

\* the worksheets: a new empty one, one with a data row but no header row,
\* and sheets that begin with the header row
InitialSheets ==
    {<<>>,
     <<new_row(post_metrics(URL_FB, FACEBOOK, METRICS_A))>>,
     <<EXPECTED_HEADERS>>,
     <<EXPECTED_HEADERS, new_row(post_metrics(URL_FB, FACEBOOK, METRICS_A))>>,
     <<EXPECTED_HEADERS, NOTE_ROW, TYPED_ROW>>}

(***************************************************************************)
(* What the platform fetches of the commands may give.                     *)
(***************************************************************************)
FETCH_OFF == [status |-> "off", posts |-> <<>>]

FETCH_ERROR == [status |-> "error", posts |-> <<>>]

fetch_ok(posts) == [status |-> "ok", posts |-> posts]

FacebookFetches ==
    {FETCH_OFF, FETCH_ERROR,
     fetch_ok(<<post_metrics(URL_FB, FACEBOOK, METRICS_B)>>),
     fetch_ok(<<post_metrics(URL_FB_BARE, FACEBOOK, METRICS_A)>>)}

InstagramFetches == {FETCH_OFF, FETCH_ERROR}

TwitterFetches ==
    {FETCH_OFF,
     fetch_ok(<<post_metrics(URL_TWITTER, TWITTER, METRICS_A)>>)}

\* the sets of configured platform clients
ClientSets == {{}, {FACEBOOK}, {FACEBOOK, INSTAGRAM, TWITTER}}

FreshOutcomes ==
    {[status |-> "ok", metrics |-> METRICS_B],
     [status |-> "ok", metrics |-> METRICS_A],
     [status |-> "none", metrics |-> METRICS_A],
     [status |-> "error", metrics |-> METRICS_A]}

(***************************************************************************)
(* The store used by one caller at a time: every action is one call, run   *)
(* to completion.  last records the latest call and what it returned.      *)
(***************************************************************************)
\* the store holds no data row: nothing at all, or the header row alone
store_empty(sh) == trim_rows(sh) = <<>> \/ trim_rows(sh) = <<EXPECTED_HEADERS>>

Init ==
    /\ sheet \in InitialSheets
    /\ last = [op |-> "init"]

EnsureHeaders ==
    /\ sheet' = ensure_headers(sheet)
    /\ last' = [op |-> "ensure_headers",
                wrote |-> headers_missing(row_values_1(sheet))]

UpdateOrAddPost(metrics) ==
    \E res \in {update_or_add_post(sheet, metrics)} :
        /\ Len(res.sheet) <= MaxRows \/ Len(res.sheet) = Len(sheet)
        /\ sheet' = res.sheet
        /\ last' = [op |-> "update_or_add_post", metrics |-> metrics,
                    raised |-> res.raised, action |-> res.action,
                    row_number |-> res.row_number]

BatchUpdateMetrics(metrics_list, dry_run, fail) ==
    \E res \in {batch_update_metrics(sheet, metrics_list, dry_run, fail)} :
        /\ Len(res.sheet) <= MaxRows \/ Len(res.sheet) = Len(sheet)
        /\ fail = 0 \/ res.raised
        /\ sheet' = res.sheet
        /\ last' = [op |-> "batch_update_metrics", metrics_list |-> metrics_list,
                    dry_run |-> dry_run, fail |-> fail, raised |-> res.raised,
                    summary |-> res.summary, calls |-> res.calls,
                    empty_before |-> store_empty(sheet)]

Next ==
    \/ EnsureHeaders
    \/ \E metrics \in Posts : UpdateOrAddPost(metrics)
    \/ \E metrics_list \in Batches, dry_run \in BOOLEAN :
           \E fail \in FailPoints(metrics_list, dry_run) :
               BatchUpdateMetrics(metrics_list, dry_run, fail)

Spec == Init /\ [][Next]_vars

(***************************************************************************)
(* The commands of main.py, one command per action.                        *)
(***************************************************************************)
Run(dry_run, fb, ig, tw) ==
    \E res \in {run(sheet, dry_run, fb, ig, tw, 0)} :
        /\ Len(res.sheet) <= MaxRows \/ Len(res.sheet) = Len(sheet)
        /\ sheet' = res.sheet
        /\ last' = [op |-> "run", dry_run |-> dry_run, raised |-> res.raised,
                    all_metrics |-> res.all_metrics, summary |-> res.summary]

UpdateSheet(dry_run, clients, fresh) ==
    \E res \in {update_sheet(sheet, dry_run, clients, fresh)} :
        /\ sheet' = res.sheet
        /\ last' = [op |-> "update_sheet", dry_run |-> dry_run,
                    clients |-> clients, updates |-> Len(res.updates)]

NextCmd ==
    \/ \E dry_run \in BOOLEAN, fb \in FacebookFetches, ig \in InstagramFetches,
          tw \in TwitterFetches :
           Run(dry_run, fb, ig, tw)
    \/ \E dry_run \in BOOLEAN, clients \in ClientSets,
          fresh \in [2..Len(sheet) -> FreshOutcomes] :
           UpdateSheet(dry_run, clients, fresh)

SpecCmd == Init /\ [][NextCmd]_vars

(***************************************************************************)
(* The two URL normalizations as pure functions.  The initial state draws  *)
(* a host label X and a path; an action applies one normalization to the   *)
(* URLs built from them.  The sheet is not used.                           *)
(***************************************************************************)
DOT_COM == <<".", "c", "o", "m">>

HOST_LETTERS == {"a", "x", "w"}

RECURSIVE labels(_)
labels(n) ==
    IF n = 0 THEN {<<>>}
    ELSE labels(n - 1)
         \cup {w \o <<c>> : w \in {v \in labels(n - 1) : Len(v) = n - 1},
                             c \in HOST_LETTERS}

\* the host labels X: the short ones over HOST_LETTERS, and two words
HostLabels ==
    (labels(MaxLabelLen) \ {<<>>}) \cup {<<"b","o","x">>, <<"w","w","w">>}

\* the paths, without the trailing slash
UrlPaths ==
    {<<>>,
     <<"/","a","/","b">>,
     <<"/","A","/","b">>,
     <<"/","a","/","/","b">>,
     <<"/","i","/","s","t","a","t","u","s","/","1">>,
     <<"/","x",".","c","o","m","/","w","w","w",".","a">>}

decorated_url(label, path) == HTTPS \o WWW_DOT \o label \o DOT_COM \o path \o SLASH

plain_url(label, path) == HTTPS \o label \o DOT_COM \o path

x_url(path) == HTTPS \o X_COM \o path

twitter_url(path) == HTTPS \o TWITTER_COM \o path

InitNorm ==
    /\ sheet = <<>>
    /\ \E label \in HostLabels, path \in UrlPaths :
           last = [op |-> "input", label |-> label, path |-> path]

ParserNormalize ==
    /\ last.op = "input"
    /\ last' = [op |-> "URLParser.normalize_url",
                label |-> last.label, path |-> last.path,
                decorated |-> normalize_url(decorated_url(last.label, last.path)),
                plain |-> normalize_url(plain_url(last.label, last.path)),
                x_key |-> normalize_url(x_url(last.path)),
                twitter_key |-> normalize_url(twitter_url(last.path))]
    /\ UNCHANGED sheet

StoreNormalize ==
    /\ last.op = "input"
    /\ last' = [op |-> "_normalize_url",
                label |-> last.label, path |-> last.path,
                decorated |-> _normalize_url(decorated_url(last.label, last.path)),
                plain |-> _normalize_url(plain_url(last.label, last.path)),
                x_key |-> _normalize_url(x_url(last.path)),
                twitter_key |-> _normalize_url(twitter_url(last.path))]
    /\ UNCHANGED sheet

NextNorm == ParserNormalize \/ StoreNormalize

SpecNorm == InitNorm /\ [][NextNorm]_vars

(***************************************************************************)
(* get_all_rows on what people type into metric cells.  The initial state  *)
(* draws a sheet of two rows: a first row (the header row, or a shorter    *)
(* row) and a data row with one typed metric cell; the action reads it.    *)
(***************************************************************************)
CELL_CHARS == {"1", "0", ",", "-", "_", " ", "a", "."}

RECURSIVE texts(_)
texts(n) ==
    IF n = 0 THEN {<<>>}
    ELSE texts(n - 1)
         \cup {w \o <<c>> : w \in {v \in texts(n - 1) : Len(v) = n - 1},
                             c \in CELL_CHARS}

\* the cell contents: the short texts over CELL_CHARS and some typed values
CellTexts ==
    texts(MaxCellLen)
    \cup {<<"1",",","2","3","4">>, <<"1",",","0","0","0",",","0","0","0">>,
          <<"n","/","a">>, <<"1",".","5">>, <<"+","7">>, <<"-","1","2">>,
          <<" ","4","2"," ">>, <<"1","_","0","0","0">>, <<"1","2","%">>,
          <<"1","k">>}

\* the typed metric columns (0-based)
TypedColumns == {COL_VIEWS, COL_REACH, COL_SHARES}

\* a data row whose cell in column col (0-based) is text; the cells before
\* it that are not identity cells are empty and there is no cell after it
typed_row(col, text) ==
    <<<<"2","0","2","4","-","0","3","-","0","1">>, <<"0","9",":","3","0">>,
      capitalize(FACEBOOK), URL_FB, CAPTION>>
        \o empty_cells(col - COL_VIEWS) \o <<text>>

CellSheets ==
    {<<first, typed_row(col, text)>> :
         first \in {EXPECTED_HEADERS, NOTE_ROW},
         col \in TypedColumns, text \in CellTexts}

InitCells ==
    /\ sheet \in CellSheets
    /\ last = [op |-> "init"]

GetAllRows ==
    /\ last.op = "init"
    /\ \E res \in {get_all_rows(sheet)} :
           last' = [op |-> "get_all_rows", raised |-> res.raised,
                    rows |-> res.rows]
    /\ UNCHANGED sheet

NextCells == GetAllRows

SpecCells == InitCells /\ [][NextCells]_vars

(***************************************************************************)
(* The properties.                                                         *)
(***************************************************************************)
\* the URL cells of the physical rows of the sheet
url_cell(sh, i) == IF Len(sh[i]) > COL_URL THEN sh[i][COL_URL + 1] ELSE <<>>

\* the eight metric cells of row i hold the metrics of the record
holds_metrics(sh, i, metrics) ==
    /\ i \in 1..Len(sh)
    /\ Len(sh[i]) > COL_SHARES
    /\ SubSeq(sh[i], COL_VIEWS + 1, COL_SHARES + 1) = metric_values(metrics)

\* the record with the same identity and the other metric values
other_metrics(metrics) ==
    post_metrics(metrics.post_url, metrics.platform,
                 IF metrics.views = METRICS_A.views THEN METRICS_B ELSE METRICS_A)

\* C1: update_or_add_post called again with the same record, right after a
\* call that returned, returns ("updated", n) for the row n the first call
\* wrote, and leaves the number of rows and the rows themselves as they are.
C1_SecondCallUpdates ==
    (last.op = "update_or_add_post" /\ ~last.raised) =>
        \E second \in {update_or_add_post(sheet, last.metrics)} :
            /\ ~second.raised
            /\ second.action = "updated"
            /\ second.row_number = last.row_number
            /\ second.sheet = sheet

\* C2: under sequential update_or_add_post and batch_update_metrics calls
\* the sheet never holds two rows whose URL cells have the same normalized
\* URL.
C2_OneRowPerUrl ==
    \A i, j \in 1..Len(sheet) :
        (/\ url_cell(sheet, i) # <<>>
         /\ _normalize_url(url_cell(sheet, i)) = _normalize_url(url_cell(sheet, j)))
            => i = j

\* C3: batch_update_metrics([r]) on an empty store returns added = 1 and
\* updated = 0, and batch_update_metrics([r']) right after it, with r' of
\* the same post_url and other metrics, returns updated = 1 and added = 0
\* and leaves the metrics of r' in the stored row.
C3_AddThenUpdate ==
    (/\ last.op = "batch_update_metrics"
     /\ ~last.dry_run
     /\ ~last.raised
     /\ last.empty_before
     /\ Len(last.metrics_list) = 1) =>
        /\ last.summary.added = 1
        /\ last.summary.updated = 0
        /\ \E second \in {batch_update_metrics(
                              sheet, <<other_metrics(last.metrics_list[1])>>,
                              FALSE, 0)} :
               /\ ~second.raised
               /\ second.summary.updated = 1
               /\ second.summary.added = 0
               /\ holds_metrics(second.sheet, second.summary.details[1].row,
                                other_metrics(last.metrics_list[1]))

\* C4: a step that is batch_update_metrics with dry_run set leaves the
\* sheet as it is, also when a read of the store fails during the batch.
C4_DryRunNeverWrites ==
    [][(last'.op = "batch_update_metrics" /\ last'.dry_run) => sheet' = sheet]_vars

\* a dry run over two records whose second read of the store failed, on a
\* sheet that holds the header row and a data row
C4_DryRunReadFailed ==
    /\ last.op = "batch_update_metrics"
    /\ last.dry_run
    /\ last.raised
    /\ last.calls = 2
    /\ Len(last.metrics_list) = 2
    /\ ~store_empty(sheet)
    /\ sheet[1] = EXPECTED_HEADERS

\* C5: the updated and added counts a dry run returned are the counts that
\* batch_update_metrics without dry_run returns for the same batch on the
\* same sheet.
C5_DryRunCountsMatch ==
    (last.op = "batch_update_metrics" /\ last.dry_run /\ ~last.raised) =>
        \E real \in {batch_update_metrics(sheet, last.metrics_list, FALSE, 0)} :
            /\ real.summary.updated = last.summary.updated
            /\ real.summary.added = last.summary.added

\* C6: a step that is the command run or update-sheet with --dry-run leaves
\* the sheet as it is.
C6_DryRunPersistsNothing ==
    [][(last'.op \in {"run", "update_sheet"} /\ last'.dry_run)
           => sheet' = sheet]_vars

\* the URLs of one post that differ only by letter case, the `www.` prefix
\* of the host or a trailing slash
VariantUrls == {URL_FB, URL_FB_BARE, URL_FB_CASE}

\* C7: after update_or_add_post has stored a record under one of the
\* variant URLs of a post, a record with any of the variant URLs updates the
\* row of that call with its metrics and the number of rows does not change.
C7_VariantUpdatesSameRow ==
    (/\ last.op = "update_or_add_post"
     /\ ~last.raised
     /\ last.metrics.post_url \in VariantUrls) =>
        \A v \in VariantUrls :
            \E res \in {update_or_add_post(sheet,
                            post_metrics(v, FACEBOOK, METRICS_B))} :
                /\ res.action = "updated"
                /\ res.row_number = last.row_number
                /\ Len(res.sheet) = Len(sheet)
                /\ holds_metrics(res.sheet, last.row_number, METRICS_B)

\* C8: for each of the two normalizations, the URL with `www.` and the
\* trailing slash has the key of the URL without them, and the URL on the
\* host x.com has the key of the same URL on the host twitter.com.
C8_SameKey ==
    last.op \in {"URLParser.normalize_url", "_normalize_url"} =>
        /\ last.decorated = last.plain
        /\ last.x_key = last.twitter_key

\* scheme, host and path of a URL, as urlparse splits it
location(url) ==
    [scheme |-> urlparse(url).scheme, netloc |-> urlparse(url).netloc,
     path |-> urlparse(url).path]

\* the rows that get_all_rows returns
stored_rows(sh) == get_all_rows(sh).rows

\* C9: after update_or_add_post has stored a record in a row that
\* get_all_rows returns, find_row_by_url finds that row for every URL with
\* the scheme, host and path of the record's URL, whatever its query string,
\* and update_or_add_post with such a URL updates the row and adds none.
C9_QueryIgnored ==
    (/\ last.op = "update_or_add_post"
     /\ ~last.raised
     /\ \E k \in 1..Len(stored_rows(sheet)) :
            stored_rows(sheet)[k].row_number = last.row_number) =>
        \A metrics \in Posts :
            location(metrics.post_url) = location(last.metrics.post_url) =>
                /\ find_row_by_url(sheet, metrics.post_url).found
                /\ find_row_by_url(sheet, metrics.post_url).row.row_number
                       = last.row_number
                /\ update_or_add_post(sheet, metrics).action = "updated"
                /\ Len(update_or_add_post(sheet, metrics).sheet) = Len(sheet)

\* the text has only digits and commas, and a digit
digits_and_commas(text) ==
    /\ \E i \in 1..Len(text) : is_digit(text[i])
    /\ \A i \in 1..Len(text) : is_digit(text[i]) \/ text[i] = ","

\* the number the digits of the text spell, the commas left out
RECURSIVE spelled(_, _)
spelled(text, acc) ==
    IF text = <<>> THEN acc
    ELSE IF text[1] = "," THEN spelled(Tail(text), acc)
    ELSE spelled(Tail(text), acc * 10 + digit_value(text[1]))

\* the text has a character that no integer literal has
not_a_number(text) ==
    \E i \in 1..Len(text) :
        ~is_digit(text[i]) /\ text[i] \notin {",", "+", "-", "_", " ", "\n", "\t"}

\* what get_all_rows is to read from a metric cell of the given text
reads_as(text, value) ==
    /\ text = <<>> => value = 0
    /\ digits_and_commas(text) => value = spelled(text, 0)
    /\ not_a_number(text) => value = 0

\* C10: get_all_rows does not raise on the content of a metric cell; an
\* empty or missing cell reads as 0, digits with commas read as the number
\* without the commas, and a text that is no number reads as 0.
C10_CellsReadDefensively ==
    last.op = "get_all_rows" =>
        /\ ~last.raised
        /\ Len(last.rows) = 1
        /\ \A col \in COL_VIEWS..COL_SHARES :
               reads_as(cell_or_empty(sheet[2], col),
                        last.rows[1][METRIC_FIELDS[col - COL_VIEWS + 1]])

\* get_all_rows has read the cell "1,234" as 1234, in a row that is too
\* short to have the cells after it
C10_ReadsTypedCell ==
    /\ last.op = "get_all_rows"
    /\ sheet[1] = NOTE_ROW
    /\ cell_or_empty(sheet[2], COL_VIEWS) = <<"1",",","2","3","4">>
    /\ Len(last.rows) = 1
    /\ last.rows[1].views = 1234
    /\ last.rows[1].shares = 0

(***************************************************************************)
(* The operations of the store called one by one on worksheets as people   *)
(* keep them: with a column of their own after the thirteen, with notes    *)
(* and blank rows between the data rows, with rows of a few cells.         *)
(***************************************************************************)
NOTES_HEADER == <<"N","o","t","e","s">>

\* a row of fewer cells than the URL column needs
SHORT_ROW == <<<<"2","0","2","4","-","0","3","-","0","2">>, <<"t","o","d","o">>>>

StoreSheets ==
    InitialSheets
    \cup {<<EXPECTED_HEADERS \o <<NOTES_HEADER>>, TYPED_ROW>>,
          <<EXPECTED_HEADERS, <<>>, TYPED_ROW, SHORT_ROW>>,
          <<EXPECTED_HEADERS,
            new_row(post_metrics(URL_FB, FACEBOOK, METRICS_A)),
            NOTE_ROW, TYPED_ROW>>}

InitStore ==
    /\ sheet \in StoreSheets
    /\ last = [op |-> "init"]

\* row_number is a row of the sheet
UpdateRowMetrics(m) ==
    \E row_number \in 1..Len(sheet) :
        /\ sheet' = update_row_metrics(sheet, row_number, m)
        /\ last' = [op |-> "update_row_metrics", row_number |-> row_number,
                    metrics |-> m]

AddPost(metrics) ==
    \E res \in {add_post(sheet, metrics)} :
        /\ Len(res.sheet) <= MaxRows
        /\ sheet' = res.sheet
        /\ last' = [op |-> "add_post", metrics |-> metrics,
                    row_number |-> res.row_number]

ReadAllRows ==
    /\ \E res \in {get_all_rows(sheet)} :
           last' = [op |-> "get_all_rows", raised |-> res.raised,
                    rows |-> res.rows]
    /\ UNCHANGED sheet

NextStore ==
    \/ EnsureHeaders
    \/ \E m \in {METRICS_A, METRICS_B} : UpdateRowMetrics(m)
    \/ \E metrics \in Posts : AddPost(metrics)
    \/ ReadAllRows

SpecStore == InitStore /\ [][NextStore]_vars

\* the cell of row i in column col (0-based), empty when the row is shorter
cell_at(sh, i, col) == cell_or_empty(sh[i], col)

\* the widest row of two sheets
widest(sh1, sh2) ==
    IF max_width(sh1) > max_width(sh2) THEN max_width(sh1) ELSE max_width(sh2)

\* C11: a step that is update_row_metrics(n, record) leaves the number of
\* rows and every row but n as they are, leaves in row n every cell outside
\* the columns F to M as it is, and puts the eight metric values of the
\* record in the columns F to M of row n, all in that one step.
C11_OnlyMetricCellsChange ==
    [][last'.op = "update_row_metrics" =>
           /\ Len(sheet') = Len(sheet)
           /\ \A i \in 1..Len(sheet) : i # last'.row_number => sheet'[i] = sheet[i]
           /\ \A col \in 0..(widest(sheet, sheet') - 1) :
                  (col < COL_VIEWS \/ col > COL_SHARES) =>
                      cell_at(sheet', last'.row_number, col)
                          = cell_at(sheet, last'.row_number, col)
           /\ holds_metrics(sheet', last'.row_number, last'.metrics)]_vars

\* update_row_metrics has written the metrics of a record into a row that
\* had three metric cells of text
C11_TypedRowUpdated ==
    /\ last.op = "update_row_metrics"
    /\ last.row_number = Len(sheet)
    /\ SubSeq(sheet[last.row_number], 1, COL_VIEWS) = SubSeq(TYPED_ROW, 1, COL_VIEWS)
    /\ holds_metrics(sheet, last.row_number, METRICS_B)

(***************************************************************************)
(* add_post called with captions around the limit of 200 characters, with  *)
(* line breaks at the start, at the limit and after it.                    *)
(***************************************************************************)
MaxExtra == 3

NEWLINE == "\n"

CaptionLengths == 0..2 \cup (CAPTION_LIMIT - 1)..(CAPTION_LIMIT + MaxExtra)

BreakPositions == {1, 2, CAPTION_LIMIT, CAPTION_LIMIT + 1}

\* a caption of n characters with a line break at each position of breaks
caption_of(n, breaks) == [k \in 1..n |-> IF k \in breaks THEN NEWLINE ELSE "a"]

Captions ==
    {caption_of(n, breaks) : n \in CaptionLengths, breaks \in SUBSET BreakPositions}

captioned(caption) ==
    [post_metrics(URL_FB, FACEBOOK, METRICS_A) EXCEPT !.caption = caption]

InitCaption ==
    /\ sheet \in {<<>>, <<EXPECTED_HEADERS>>}
    /\ last = [op |-> "init"]

AddCaption(caption) ==
    /\ last.op = "init"
    /\ \E res \in {add_post(sheet, captioned(caption))} :
           /\ sheet' = res.sheet
           /\ last' = [op |-> "add_post", caption |-> caption,
                       row_number |-> res.row_number]

NextCaption == \E caption \in Captions : AddCaption(caption)

SpecCaption == InitCaption /\ [][NextCaption]_vars

\* the caption cell of the row that the last add_post wrote
written_caption == cell_at(sheet, Len(sheet), COL_CAPTION)

\* C12: the caption that add_post writes has no newline character and at most
\* 203 characters: a caption of at most 200 characters is written whole, a
\* longer one as 203 characters that end in "...".
C12_CaptionCutWithEllipsis ==
    last.op = "add_post" =>
        /\ \A k \in 1..Len(written_caption) : written_caption[k] # NEWLINE
        /\ Len(written_caption) <= CAPTION_LIMIT + Len(ELLIPSIS)
        /\ IF Len(last.caption) > CAPTION_LIMIT
           THEN /\ Len(written_caption) = CAPTION_LIMIT + Len(ELLIPSIS)
                /\ suffix(written_caption, CAPTION_LIMIT) = ELLIPSIS
           ELSE Len(written_caption) = Len(last.caption)

\* C12 as stated: the written caption has at most 200 characters and no
\* newline character
C12_CaptionAtMostLimit ==
    last.op = "add_post" =>
        /\ Len(written_caption) <= CAPTION_LIMIT
        /\ \A k \in 1..Len(written_caption) : written_caption[k] # NEWLINE

\* add_post has written a caption that was longer than the limit and had a
\* line break in the part that is kept
C12_LongCaptionWritten ==
    /\ last.op = "add_post"
    /\ Len(last.caption) > CAPTION_LIMIT
    /\ last.caption[CAPTION_LIMIT] = NEWLINE
    /\ written_caption[CAPTION_LIMIT] = " "

\* the first row as ensure_headers reads it
first_row(sh) == row_values_1(sh)

\* C13: after a call of ensure_headers the first thirteen cells of row 1 are
\* the expected headers in order and a second call leaves the sheet as it
\* is; the second call performs no write when row 1 has no cell after the
\* thirteenth; a call on a sheet whose first row equals the expected
\* headers performs no write.
C13_HeadersWrittenOnce ==
    [][last'.op = "ensure_headers" =>
           /\ prefix(first_row(sheet'), Len(EXPECTED_HEADERS)) = EXPECTED_HEADERS
           /\ ensure_headers(sheet') = sheet'
           /\ Len(first_row(sheet')) <= Len(EXPECTED_HEADERS)
                  => ~headers_missing(first_row(sheet'))
           /\ first_row(sheet) = EXPECTED_HEADERS
                  => (~last'.wrote /\ sheet' = sheet)]_vars

\* C13 as stated: after a call the first row equals the expected headers and
\* a second call performs no write; a call on a sheet whose first row equals
\* the expected headers performs no write
C13_SecondCallNeverWrites ==
    [][last'.op = "ensure_headers" =>
           /\ first_row(sheet') = EXPECTED_HEADERS
           /\ ~headers_missing(first_row(sheet'))
           /\ first_row(sheet) = EXPECTED_HEADERS => ~last'.wrote]_vars

\* ensure_headers has written the headers into a first row that keeps a
\* fourteenth cell, and would write them again
C13_WroteBesideOwnColumn ==
    /\ last.op = "ensure_headers"
    /\ last.wrote
    /\ Len(first_row(sheet)) > Len(EXPECTED_HEADERS)
    /\ prefix(first_row(sheet), Len(EXPECTED_HEADERS)) = EXPECTED_HEADERS
    /\ headers_missing(first_row(sheet))

\* C14: the summary of a batch_update_metrics call that returns, in either
\* mode, has one descriptor per input record in input order, descriptor i
\* with the URL of record i; updated + added is the number of input records
\* and skipped is 0.
C14_OneDescriptorPerRecord ==
    (last.op = "batch_update_metrics" /\ ~last.raised) =>
        /\ Len(last.summary.details) = Len(last.metrics_list)
        /\ \A i \in 1..Len(last.metrics_list) :
               last.summary.details[i].url = last.metrics_list[i].post_url
        /\ last.summary.updated + last.summary.added = Len(last.metrics_list)
        /\ last.summary.skipped = 0

\* a batch of two records with different URLs has returned, one record
\* updated and the other added
C14_MixedBatchReturned ==
    /\ last.op = "batch_update_metrics"
    /\ ~last.raised
    /\ ~last.dry_run
    /\ Len(last.metrics_list) = 2
    /\ last.metrics_list[1].post_url # last.metrics_list[2].post_url
    /\ last.summary.updated = 1
    /\ last.summary.added = 1

(***************************************************************************)
(* batch_update_metrics(dry_run=False) with a store call that raises: the  *)
(* calls of a batch are numbered 1, 2, ... in the order they are made      *)
(* (find_row_by_url, then update_row_metrics or the append_row and the     *)
(* get_all_values of add_post), and call number fail raises.               *)
(***************************************************************************)
\* what the caller holds when the call raised
NO_SUMMARY == [raised |-> TRUE]

\* a record makes at most three store calls
CALLS_PER_RECORD == 3

InitFail ==
    /\ sheet \in InitialSheets
    /\ last = [op |-> "init"]

BatchFailing(metrics_list, fail) ==
    \E res \in {batch_update_metrics(sheet, metrics_list, FALSE, fail)} :
        /\ Len(res.sheet) <= MaxRows \/ Len(res.sheet) = Len(sheet)
        /\ fail = 0 \/ res.raised
        /\ sheet' = res.sheet
        /\ last' = [op |-> "batch_update_metrics", metrics_list |-> metrics_list,
                    fail |-> fail, raised |-> res.raised,
                    summary |-> IF res.raised THEN NO_SUMMARY ELSE res.summary,
                    calls |-> res.calls,
                    failed_at |-> Len(res.summary.details) + 1,
                    before |-> sheet]

NextFail ==
    \E metrics_list \in Batches :
        \E fail \in 0..(CALLS_PER_RECORD * Len(metrics_list)) :
            BatchFailing(metrics_list, fail)

SpecFail == InitFail /\ [][NextFail]_vars

\* the batch of the records before record k, run without a failure
records_before(sh, metrics_list, k) ==
    batch_update_metrics(sh, SubSeq(metrics_list, 1, k - 1), FALSE, 0)

\* the sheets that a failure in record k can leave behind a batch whose
\* records before k left the sheet sh: sh itself, or sh with the row of
\* record k appended when the read that follows the append has failed
left_by_failure(sh, metrics) == {sh, add_post(sh, metrics).sheet}

\* C15: when a store call fails while batch_update_metrics(dry_run=False)
\* processes record k, the call raises and returns no summary, the failing
\* call is the last store call made, and the sheet is the one that the
\* records before k leave, with at most the row of record k appended.
C15_FailureStopsBatch ==
    (last.op = "batch_update_metrics" /\ last.raised) =>
        /\ last.summary = NO_SUMMARY
        /\ last.calls = last.fail
        /\ last.failed_at \in 1..Len(last.metrics_list)
        /\ LET done == records_before(last.before, last.metrics_list,
                                      last.failed_at)
           IN  /\ ~done.raised
               /\ last.calls <= done.calls + CALLS_PER_RECORD
               /\ sheet \in left_by_failure(done.sheet,
                                           last.metrics_list[last.failed_at])

\* the second record of a batch has failed after the first was written
C15_SecondRecordFailed ==
    /\ last.op = "batch_update_metrics"
    /\ last.raised
    /\ last.failed_at = 2
    /\ sheet # last.before
    /\ sheet = records_before(last.before, last.metrics_list, 2).sheet

(***************************************************************************)
(* One run command with each of the three fetches off, failing or giving   *)
(* posts; last keeps what each fetch gave and what was passed to           *)
(* batch_update_metrics.                                                   *)
(***************************************************************************)
URL_IG == <<"h","t","t","p","s",":","/","/","w","w","w",".","i","n","s","t","a","g","r","a","m",".","c","o","m","/","p","/","a","b","c","/">>

RunInstagramFetches ==
    InstagramFetches \cup {fetch_ok(<<post_metrics(URL_IG, INSTAGRAM, METRICS_A)>>)}

RunTwitterFetches == TwitterFetches \cup {FETCH_ERROR}

RunOnce(dry_run, fb, ig, tw) ==
    /\ last.op = "init"
    /\ \E res \in {run(sheet, dry_run, fb, ig, tw, 0)} :
           /\ sheet' = res.sheet
           /\ last' = [op |-> "run", dry_run |-> dry_run, fb |-> fb, ig |-> ig,
                       tw |-> tw, raised |-> res.raised,
                       batch_called |-> res.batch_called,
                       all_metrics |-> res.all_metrics, summary |-> res.summary]

NextRun ==
    \E dry_run \in BOOLEAN, fb \in FacebookFetches, ig \in RunInstagramFetches,
       tw \in RunTwitterFetches :
        RunOnce(dry_run, fb, ig, tw)

SpecRun == Init /\ [][NextRun]_vars

\* the records a fetch has obtained
obtained(outcome) == IF outcome.status = "error" \/ outcome.status = "off"
                     THEN <<>>
                     ELSE outcome.posts

\* C16: a run in which the fetch of a platform fails does not raise; the
\* records obtained from the other platforms are passed to
\* batch_update_metrics, all of them, in the order facebook, instagram,
\* twitter, and each gets its descriptor in the summary.
C16_FailedFetchSkipped ==
    last.op = "run" =>
        LET records == obtained(last.fb) \o obtained(last.ig) \o obtained(last.tw)
        IN  /\ ~last.raised
            /\ last.all_metrics = records
            /\ records # <<>> =>
                   /\ last.batch_called
                   /\ Len(last.summary.details) = Len(records)
                   /\ \A i \in 1..Len(records) :
                          last.summary.details[i].url = records[i].post_url

\* the Facebook fetch has failed and the records of Instagram and Twitter
\* have been passed on, in that order
C16_FacebookFailedOthersPassed ==
    /\ last.op = "run"
    /\ last.fb = FETCH_ERROR
    /\ last.ig.status = "ok"
    /\ last.tw.status = "ok"
    /\ last.batch_called
    /\ last.all_metrics = last.ig.posts \o last.tw.posts
    /\ ~last.dry_run
    /\ Len(sheet) > Len(last.all_metrics)

(***************************************************************************)
(* FacebookAPI.get_post_insights and InstagramAPI.get_media_insights.      *)
(* A request made by _make_request gives the decoded JSON body, or raises  *)
(* requests.HTTPError (raise_for_status: the platform denied the request)  *)
(* or another exception (requests.ConnectionError: no answer at all).      *)
(* A dict is a function on its keys; results are [raised, value].          *)
(***************************************************************************)
HTTP_ERROR == [status |-> "http_error"]

CONNECTION_ERROR == [status |-> "connection_error"]

response(body) == [status |-> "ok", body |-> body]

EMPTY_DICT == <<>>

\* dict.get(key, default)
dict_get(d, key, default) == IF key \in DOMAIN d THEN d[key] ELSE default

\* an except clause that catches nothing
caught_nothing(outcome) == FALSE

\* `except requests.HTTPError` catches what the request raised
caught_http(outcome) == outcome.status = "http_error"

\* values[0].get("value", 0) if values else 0, for an item of "data"
first_value(item) ==
    IF dict_get(item, "values", <<EMPTY_DICT>>) # <<>>
    THEN dict_get(dict_get(item, "values", <<EMPTY_DICT>>)[1], "value", 0)
    ELSE 0

\* the loop over insights_data.get("data", []) of get_post_insights
RECURSIVE post_insights_loop(_, _)
post_insights_loop(found, data) ==
    IF data = <<>> THEN found
    ELSE post_insights_loop(
             IF dict_get(data[1], "name", "None") = "post_impressions"
             THEN [found EXCEPT !.views = first_value(data[1])]
             ELSE IF dict_get(data[1], "name", "None") = "post_impressions_unique"
             THEN [found EXCEPT !.reach = first_value(data[1])]
             ELSE IF dict_get(data[1], "name", "None") = "post_clicks"
             THEN [found EXCEPT !.link_clicks = first_value(data[1])]
             ELSE found,
             Tail(data))

NO_INSIGHTS == [views |-> 0, reach |-> 0, link_clicks |-> 0]

NO_ENGAGEMENT == [likes |-> 0, comments |-> 0, shares |-> 0]

\* post_data.get(edge, {}).get("summary", {}).get("total_count", 0)
total_count(post_data, edge) ==
    dict_get(dict_get(dict_get(post_data, edge, EMPTY_DICT),
                      "summary", EMPTY_DICT),
             "total_count", 0)

\* post_data.get("shares", {}).get("count", 0)
shares_count(post_data) ==
    dict_get(dict_get(post_data, "shares", EMPTY_DICT), "count", 0)

engagement_of(post_data, edge) ==
    [likes |-> total_count(post_data, edge),
     comments |-> total_count(post_data, "comments"),
     shares |-> shares_count(post_data)]

\* the first part of get_post_insights: [raised, value]
post_insights_part(try_insights, outcome) ==
    IF ~try_insights THEN [raised |-> FALSE, value |-> NO_INSIGHTS]
    ELSE IF outcome.status = "ok"
    THEN [raised |-> FALSE,
          value |-> post_insights_loop(NO_INSIGHTS,
                                       dict_get(outcome.body, "data", <<>>))]
    ELSE IF caught_http(outcome) THEN [raised |-> FALSE, value |-> NO_INSIGHTS]
    ELSE [raised |-> TRUE, value |-> NO_INSIGHTS]

\* the last resort: the shares alone, under a bare except
shares_only(outcome) ==
    IF outcome.status = "ok"
    THEN [raised |-> FALSE,
          value |-> [NO_ENGAGEMENT EXCEPT !.shares = shares_count(outcome.body)]]
    ELSE [raised |-> FALSE, value |-> NO_ENGAGEMENT]

\* the third request: the likes edge in place of the reactions edge
likes_edge(requests) ==
    IF requests.likes.status = "ok"
    THEN [raised |-> FALSE, value |-> engagement_of(requests.likes.body, "likes")]
    ELSE IF caught_http(requests.likes) THEN shares_only(requests.shares)
    ELSE [raised |-> TRUE, value |-> NO_ENGAGEMENT]

\* the second request: the reactions of the full post id
full_post_id(requests) ==
    IF requests.post.status = "ok"
    THEN [raised |-> FALSE,
          value |-> engagement_of(requests.post.body, "reactions")]
    ELSE IF caught_http(requests.post) THEN likes_edge(requests)
    ELSE [raised |-> TRUE, value |-> NO_ENGAGEMENT]

\* the engagement part of get_post_insights: the reactions of the post
\* object id first
post_engagement_part(requests) ==
    IF requests.object.status = "ok"
    THEN [raised |-> FALSE,
          value |-> engagement_of(requests.object.body, "reactions")]
    ELSE IF caught_http(requests.object) THEN full_post_id(requests)
    ELSE [raised |-> TRUE, value |-> NO_ENGAGEMENT]

post_insights_dict(insights, engagement) ==
    [likes |-> engagement.likes, comments |-> engagement.comments,
     shares |-> engagement.shares, views |-> insights.views,
     reach |-> insights.reach, follows |-> 0,
     link_clicks |-> insights.link_clicks,
     interactions |-> engagement.likes + engagement.comments + engagement.shares]

post_insights_result(insights, engagement) ==
    IF insights.raised \/ engagement.raised
    THEN [raised |-> TRUE, value |-> EMPTY_DICT]
    ELSE [raised |-> FALSE,
          value |-> post_insights_dict(insights.value, engagement.value)]

\* requests: the outcome of each request the method can make
get_post_insights(try_insights, requests) ==
    post_insights_result(post_insights_part(try_insights, requests.insights),
                         post_engagement_part(requests))

\* the loop of get_media_insights: insights[name] = first value
RECURSIVE media_insights_loop(_, _)
media_insights_loop(insights, data) ==
    IF data = <<>> THEN insights
    ELSE media_insights_loop(
             [k \in DOMAIN insights \cup {dict_get(data[1], "name", "None")} |->
                 IF k = dict_get(data[1], "name", "None")
                 THEN first_value(data[1])
                 ELSE insights[k]],
             Tail(data))

MEDIA_KEYS == {"views", "reach", "saved", "shares", "likes", "comments"}

media_insights_dict(insights) == [k \in MEDIA_KEYS |-> dict_get(insights, k, 0)]

get_media_insights(outcome) ==
    IF outcome.status = "ok"
    THEN [raised |-> FALSE,
          value |-> media_insights_dict(
                        media_insights_loop(EMPTY_DICT,
                                            dict_get(outcome.body, "data", <<>>)))]
    ELSE IF caught_http(outcome)
    THEN [raised |-> FALSE, value |-> [k \in MEDIA_KEYS |-> 0]]
    ELSE [raised |-> TRUE, value |-> EMPTY_DICT]

(***************************************************************************)
(* One call of an adapter method, with every combination of outcomes of   *)
(* the requests it can make.  The sheet is not used.                       *)
(***************************************************************************)
INSIGHTS_BODY ==
    [data |-> <<[name |-> "post_impressions", values |-> <<[value |-> 40]>>],
                [name |-> "post_impressions_unique", values |-> <<[value |-> 30]>>],
                [name |-> "post_engaged_users", values |-> <<[value |-> 9]>>],
                [name |-> "post_clicks", values |-> <<>>]>>]

\* an answer without "data"
BODY_WITHOUT_DATA == [paging |-> "none"]

POST_BODY ==
    [reactions |-> [summary |-> [total_count |-> 7]],
     comments |-> [summary |-> [total_count |-> 3]],
     shares |-> [count |-> 4]]

\* a post nobody reacted to: the edges are left out of the answer
POST_BODY_BARE == [id |-> "1"]

LIKES_BODY ==
    [likes |-> [summary |-> [total_count |-> 6]],
     comments |-> [summary |-> [total_count |-> 1]]]

SHARES_BODY == [shares |-> [count |-> 2]]

MEDIA_BODY ==
    [data |-> <<[name |-> "views", values |-> <<[value |-> 50]>>],
                [name |-> "reach", values |-> <<[value |-> 45]>>],
                [name |-> "saved", values |-> <<>>],
                [name |-> "likes", values |-> <<[value |-> 8]>>]>>]

FAILURES == {HTTP_ERROR, CONNECTION_ERROR}

PostRequests ==
    [insights : FAILURES \cup {response(INSIGHTS_BODY), response(BODY_WITHOUT_DATA)},
     object : FAILURES \cup {response(POST_BODY)},
     post : FAILURES \cup {response(POST_BODY), response(POST_BODY_BARE)},
     likes : FAILURES \cup {response(LIKES_BODY)},
     shares : FAILURES \cup {response(SHARES_BODY)}]

MediaRequests ==
    [insights : FAILURES \cup {response(MEDIA_BODY), response(BODY_WITHOUT_DATA)}]

InitInsights ==
    /\ sheet = <<>>
    /\ last = [op |-> "init"]

GetPostInsights(try_insights, requests) ==
    /\ last.op = "init"
    /\ \E res \in {get_post_insights(try_insights, requests)} :
           last' = [op |-> "get_post_insights", try_insights |-> try_insights,
                    requests |-> requests, raised |-> res.raised,
                    value |-> res.value]
    /\ UNCHANGED sheet

GetMediaInsights(requests) ==
    /\ last.op = "init"
    /\ \E res \in {get_media_insights(requests.insights)} :
           last' = [op |-> "get_media_insights", try_insights |-> TRUE,
                    requests |-> requests, raised |-> res.raised,
                    value |-> res.value]
    /\ UNCHANGED sheet

NextInsights ==
    \/ \E try_insights \in BOOLEAN, requests \in PostRequests :
           GetPostInsights(try_insights, requests)
    \/ \E requests \in MediaRequests : GetMediaInsights(requests)

SpecInsights == InitInsights /\ [][NextInsights]_vars

POST_KEYS == {"likes", "comments", "shares", "views", "reach", "follows",
              "link_clicks", "interactions"}

\* the request r of the last call was denied with an HTTP error
denied(r) == last.requests[r].status = "http_error"

\* every request of the last call that failed was denied with an HTTP error
only_denials ==
    \A r \in DOMAIN last.requests : last.requests[r].status # "connection_error"

all_integers(value, keys) ==
    /\ DOMAIN value = keys
    /\ \A k \in keys : value[k] \in Int

\* C17: when every failing request of get_post_insights or
\* get_media_insights is an HTTP error, the method raises nothing and
\* returns a dictionary with every key and an integer under each; the
\* metrics of a denied insights request are 0, and likes, comments and
\* shares are 0 when every engagement request was denied.
C17_DeniedInsightsReadZero ==
    /\ (last.op = "get_post_insights" /\ only_denials) =>
           /\ ~last.raised
           /\ all_integers(last.value, POST_KEYS)
           /\ (~last.try_insights \/ denied("insights")) =>
                  /\ last.value["views"] = 0
                  /\ last.value["reach"] = 0
                  /\ last.value["link_clicks"] = 0
           /\ (denied("object") /\ denied("post") /\ denied("likes")
                   /\ denied("shares")) =>
                  /\ last.value["likes"] = 0
                  /\ last.value["comments"] = 0
                  /\ last.value["shares"] = 0
                  /\ last.value["interactions"] = 0
    /\ (last.op = "get_media_insights" /\ only_denials) =>
           /\ ~last.raised
           /\ all_integers(last.value, MEDIA_KEYS)
           /\ denied("insights") => \A k \in MEDIA_KEYS : last.value[k] = 0

\* get_post_insights has returned after the insights request and the first
\* three engagement requests were denied, with the shares of the fourth
C17_PostDeniedThrice ==
    /\ last.op = "get_post_insights"
    /\ last.try_insights
    /\ denied("insights") /\ denied("object") /\ denied("post") /\ denied("likes")
    /\ ~last.raised
    /\ last.value["shares"] = 2
    /\ last.value["views"] = 0

(***************************************************************************)
(* Two update_or_add_post calls on one worksheet.  A call is two steps:    *)
(* the lookup (find_row_by_url) and the write that follows from what the   *)
(* lookup returned (update_row_metrics or add_post).  With serial set a    *)
(* call starts only when the other call is not between its two steps.      *)
(***************************************************************************)
CALLERS == {1, 2}

other(p) == 3 - p

InitCalls ==
    /\ sheet \in InitialSheets
    /\ \E serial \in BOOLEAN, metrics \in [CALLERS -> Posts] :
           last = [op |-> "update_or_add_post", serial |-> serial,
                   metrics |-> metrics, start |-> sheet,
                   pc |-> [p \in CALLERS |-> "lookup"],
                   existing_row |-> [p \in CALLERS |->
                       [raised |-> FALSE, found |-> FALSE, row |-> NO_ROW]]]

Lookup(p) ==
    /\ last.pc[p] = "lookup"
    /\ last.serial => last.pc[other(p)] # "write"
    /\ last' = [last EXCEPT
                   !.pc[p] = "write",
                   !.existing_row[p] =
                       find_row_by_url(sheet, last.metrics[p].post_url)]
    /\ UNCHANGED sheet

Write(p) ==
    /\ last.pc[p] = "write"
    /\ sheet' = update_or_add(sheet, last.metrics[p], last.existing_row[p]).sheet
    /\ last' = [last EXCEPT !.pc[p] = "done"]

NextCalls == \E p \in CALLERS : Lookup(p) \/ Write(p)

SpecCalls == InitCalls /\ [][NextCalls]_vars

\* the rows of the sheet whose URL cell has the identity of post_url
rows_with_url(sh, post_url) ==
    {i \in 1..Len(sh) : _normalize_url(url_cell(sh, i)) = _normalize_url(post_url)}

\* both calls have returned; they were for one URL that no row had
both_added_new_url ==
    /\ last.pc = [p \in CALLERS |-> "done"]
    /\ last.metrics[1].post_url = last.metrics[2].post_url
    /\ rows_with_url(last.start, last.metrics[1].post_url) = {}

\* C18: when each of two update_or_add_post calls for one identity that is
\* not yet in the sheet runs to completion before the next starts, the
\* sheet does not end with two rows for the identity.
C18_SerialCallsShareRow ==
    (last.serial /\ both_added_new_url) =>
        Cardinality(rows_with_url(sheet, last.metrics[1].post_url)) = 1

\* two calls that were not serialized have both looked up before either
\* wrote, and have left two rows for the one URL below the header row
C18_InterleavedCallsBothAppend ==
    /\ ~last.serial
    /\ both_added_new_url
    /\ first_row(last.start) = EXPECTED_HEADERS
    /\ ~last.existing_row[1].found
    /\ ~last.existing_row[2].found
    /\ Cardinality(rows_with_url(sheet, last.metrics[1].post_url)) = 2

\* C19: after add_post(r) has returned n, row n of the sheet holds the
\* thirteen fields of r, and find_row_by_url(r.post_url) returns a row:
\* row n, or a row above it.
C19_AddedRowIsFound ==
    last.op = "add_post" =>
        /\ last.row_number \in 1..Len(sheet)
        /\ sheet[last.row_number] = new_row(last.metrics)
        /\ \E existing_row \in {find_row_by_url(sheet, last.metrics.post_url)} :
               /\ ~existing_row.raised
               /\ existing_row.found
               /\ existing_row.row.row_number <= last.row_number

\* add_post has returned 2 on a sheet that had the header row alone, and
\* find_row_by_url returns row 2
C19_AddedBelowHeaders ==
    /\ last.op = "add_post"
    /\ last.row_number = 2
    /\ first_row(sheet) = EXPECTED_HEADERS
    /\ sheet[2] = new_row(last.metrics)
    /\ find_row_by_url(sheet, last.metrics.post_url).found
    /\ find_row_by_url(sheet, last.metrics.post_url).row.row_number = 2

\* the positions below row 1 of the rows whose URL cell is not empty
data_positions(sh) == {i \in 2..Len(sh) : url_cell(sh, i) # <<>>}

\* C20: get_all_rows returns, in sheet order, exactly the rows below row 1
\* whose URL cell is not empty, each with its 1-based position in the sheet
\* as row_number and the text of its URL cell as post_url.
C20_RowsBelowFirstWithUrl ==
    last.op = "get_all_rows" =>
        /\ ~last.raised
        /\ Len(last.rows) = Cardinality(data_positions(sheet))
        /\ \A k \in 1..Len(last.rows) :
               /\ last.rows[k].row_number \in data_positions(sheet)
               /\ last.rows[k].row_number >= 2
               /\ last.rows[k].post_url = url_cell(sheet, last.rows[k].row_number)
        /\ \A j, k \in 1..Len(last.rows) :
               j < k => last.rows[j].row_number < last.rows[k].row_number

\* get_all_rows has returned rows 2 and 4 of a sheet whose row 3 has no URL
C20_RowBetweenSkipped ==
    /\ last.op = "get_all_rows"
    /\ Len(sheet) = 4
    /\ url_cell(sheet, 3) = <<>>
    /\ Len(last.rows) = 2
    /\ last.rows[1].row_number = 2
    /\ last.rows[2].row_number = 4

\* C21: a step that is batch_update_metrics([r], dry_run=False) leaves the
\* sheet that update_or_add_post(r) leaves from the same sheet, and its one
\* descriptor has the action and the row number that update_or_add_post
\* returns; updated is 1 exactly when that action is "updated".
C21_BatchOfOneIsUpdateOrAdd ==
    [][(/\ last'.op = "batch_update_metrics"
        /\ ~last'.dry_run
        /\ ~last'.raised
        /\ Len(last'.metrics_list) = 1) =>
           \E one \in {update_or_add_post(sheet, last'.metrics_list[1])} :
               /\ ~one.raised
               /\ sheet' = one.sheet
               /\ last'.summary.details[1].action = one.action
               /\ last'.summary.details[1].row = one.row_number
               /\ last'.summary.updated = IF one.action = "updated" THEN 1 ELSE 0
               /\ last'.summary.added = IF one.action = "added" THEN 1 ELSE 0]_vars

\* a batch of one record has updated a row below the header row
C21_BatchOfOneUpdated ==
    /\ last.op = "batch_update_metrics"
    /\ ~last.dry_run
    /\ ~last.raised
    /\ Len(last.metrics_list) = 1
    /\ last.summary.updated = 1
    /\ last.summary.details[1].row = 2
    /\ holds_metrics(sheet, 2, last.metrics_list[1])

\* the step is a real-run batch of two records of one identity that no row
\* of the sheet has
pair_of_new_identity ==
    /\ last'.op = "batch_update_metrics"
    /\ ~last'.dry_run
    /\ ~last'.raised
    /\ Len(last'.metrics_list) = 2
    /\ _normalize_url(last'.metrics_list[1].post_url)
           = _normalize_url(last'.metrics_list[2].post_url)
    /\ rows_with_url(sheet, last'.metrics_list[1].post_url) = {}

\* C22: a real-run batch of two records of one identity that is not yet in
\* the sheet reports added = 1 and updated = 1 and leaves exactly one row
\* for the identity, with the metrics of the second record.
C22_SecondOfPairUpdates ==
    [][pair_of_new_identity =>
           /\ last'.summary.added = 1
           /\ last'.summary.updated = 1
           /\ Cardinality(rows_with_url(sheet', last'.metrics_list[1].post_url)) = 1
           /\ \A i \in rows_with_url(sheet', last'.metrics_list[1].post_url) :
                  holds_metrics(sheet', i, last'.metrics_list[2])]_vars

\* C22 on sheets that begin with the header row
C22_SecondOfPairUpdatesBelowHeaders ==
    [][(pair_of_new_identity /\ first_row(sheet) = EXPECTED_HEADERS) =>
           /\ last'.summary.added = 1
           /\ last'.summary.updated = 1
           /\ Cardinality(rows_with_url(sheet', last'.metrics_list[1].post_url)) = 1
           /\ \A i \in rows_with_url(sheet', last'.metrics_list[1].post_url) :
                  holds_metrics(sheet', i, last'.metrics_list[2])]_vars

\* a batch of two records of one identity has added the first and updated
\* its row with the second, below the header row
C22_PairAddedThenUpdated ==
    /\ last.op = "batch_update_metrics"
    /\ ~last.dry_run
    /\ ~last.raised
    /\ Len(last.metrics_list) = 2
    /\ last.summary.added = 1
    /\ last.summary.updated = 1
    /\ last.summary.details[1].action = "added"
    /\ last.summary.details[2].action = "updated"
    /\ last.summary.details[2].row = last.summary.details[1].row
    /\ holds_metrics(sheet, last.summary.details[1].row, last.metrics_list[2])

\* the names of the eight numeric metrics
METRIC_NAMES == {METRIC_FIELDS[k] : k \in 1..Len(METRIC_FIELDS)}

OLD_KEYS == {"old_views", "old_interactions", "old_reach", "old_follows",
             "old_link_clicks", "old_likes", "old_comments", "old_shares"}

NEW_KEYS == {"new_views", "new_interactions", "new_reach", "new_follows",
             "new_link_clicks", "new_likes", "new_comments", "new_shares"}

\* the last call is a dry run that returned
dry_run_returned ==
    last.op = "batch_update_metrics" /\ last.dry_run /\ ~last.raised

\* C23: in a dry run the descriptor of a matched record has the row number
\* and, for views, interactions and reach and for no other metric, the
\* value of the existing row (old_) and the value of the record (new_);
\* the descriptor of an unmatched record has the platform and the views,
\* interactions and reach of the record and no other metric.
C23_DryRunDescriptorHasThreeMetrics ==
    dry_run_returned =>
        \A i \in 1..Len(last.metrics_list) :
            \E detail \in {last.summary.details[i]},
               metrics \in {last.metrics_list[i]},
               existing_row \in {find_row_by_url(sheet, last.metrics_list[i].post_url)} :
                IF existing_row.found
                THEN /\ DOMAIN detail =
                            {"action", "url", "row", "old_views", "new_views",
                             "old_interactions", "new_interactions",
                             "old_reach", "new_reach"}
                     /\ detail.action = "would_update"
                     /\ detail.row = existing_row.row.row_number
                     /\ detail.old_views = existing_row.row.views
                     /\ detail.old_interactions = existing_row.row.interactions
                     /\ detail.old_reach = existing_row.row.reach
                     /\ detail.new_views = metrics.views
                     /\ detail.new_interactions = metrics.interactions
                     /\ detail.new_reach = metrics.reach
                ELSE /\ DOMAIN detail =
                            {"action", "url", "platform", "views",
                             "interactions", "reach"}
                     /\ detail.action = "would_add"
                     /\ detail.platform = metrics.platform
                     /\ detail.views = metrics.views
                     /\ detail.interactions = metrics.interactions
                     /\ detail.reach = metrics.reach

\* C23 as stated: the descriptor of a matched record has a value before and
\* a value after for each of the eight metrics, the descriptor of an
\* unmatched record the platform and each of the eight metrics
C23_DryRunDescriptorHasEightMetrics ==
    dry_run_returned =>
        \A i \in 1..Len(last.summary.details) :
            IF last.summary.details[i].action = "would_update"
            THEN OLD_KEYS \cup NEW_KEYS \subseteq DOMAIN last.summary.details[i]
            ELSE METRIC_NAMES \cup {"platform"}
                     \subseteq DOMAIN last.summary.details[i]

\* a dry run has returned one would_add and one would_update descriptor,
\* the second with values before that differ from the values after
C23_DryRunOfBothKinds ==
    /\ dry_run_returned
    /\ Len(last.summary.details) = 2
    /\ last.summary.details[1].action = "would_add"
    /\ last.summary.details[2].action = "would_update"
    /\ last.summary.details[2].old_views # last.summary.details[2].new_views

(***************************************************************************)
(* update_or_add_post with records whose URL is of no platform that        *)
(* detect_platform knows.                                                   *)
(***************************************************************************)
URL_BLOG == <<"h","t","t","p","s",":","/","/","b","l","o","g",".","e","x","a","m","p","l","e",".","o","r","g","/","1">>

URL_BLOG_WWW == <<"h","t","t","p","s",":","/","/","w","w","w",".","b","l","o","g",".","e","x","a","m","p","l","e",".","o","r","g","/","1","/">>

URL_SHOP == <<"h","t","t","p","s",":","/","/","s","h","o","p",".","e","x","a","m","p","l","e",".","o","r","g","/","1">>

OTHER_PLATFORM == <<"b","l","o","g">>

OtherPosts ==
    {post_metrics(url, OTHER_PLATFORM, m) :
        url \in {URL_BLOG, URL_BLOG_WWW, URL_SHOP}, m \in {METRICS_A, METRICS_B}}

ReconcileOther(metrics) ==
    \E res \in {update_or_add_post(sheet, metrics)} :
        /\ Len(res.sheet) <= MaxRows + 1
        /\ sheet' = res.sheet
        /\ last' = [op |-> "update_or_add_post", metrics |-> metrics,
                    raised |-> res.raised, action |-> res.action,
                    row_number |-> res.row_number]

NextOther == \E metrics \in OtherPosts : ReconcileOther(metrics)

SpecOther == Init /\ [][NextOther]_vars

\* the rows that find_row_by_url compares with post_url and finds equal
matching_rows(sh, post_url) ==
    {i \in 2..Len(sh) :
        /\ url_cell(sh, i) # <<>>
        /\ _normalize_url(url_cell(sh, i)) = _normalize_url(post_url)}

\* the step reconciles a record whose URL detect_platform does not know
reconciles_other ==
    /\ last'.op = "update_or_add_post"
    /\ detect_platform(last'.metrics.post_url) = NO_PLATFORM

\* C24: a record whose post_url is of no recognized platform is reconciled
\* like any other: it updates the first row below row 1 that has its
\* normalized URL, and is added only when no such row exists.
C24_OtherUrlMatchedByText ==
    [][reconciles_other =>
           IF matching_rows(sheet, last'.metrics.post_url) = {}
           THEN last'.action = "added" /\ Len(sheet') = Len(sheet) + 1
           ELSE /\ last'.action = "updated"
                /\ last'.row_number \in matching_rows(sheet, last'.metrics.post_url)
                /\ Len(sheet') = Len(sheet)
                /\ holds_metrics(sheet', last'.row_number, last'.metrics)]_vars

\* C24 as stated: every reconciliation of such a record takes the add path
C24_OtherUrlAlwaysAdded ==
    [][reconciles_other => last'.action = "added"]_vars

\* a record of no recognized platform has updated the row of a URL that
\* differs from its own by www. and the trailing slash
C24_OtherUrlUpdated ==
    /\ last.op = "update_or_add_post"
    /\ detect_platform(last.metrics.post_url) = NO_PLATFORM
    /\ last.action = "updated"
    /\ last.row_number = 2
    /\ url_cell(sheet, 2) # last.metrics.post_url
    /\ holds_metrics(sheet, 2, last.metrics)

(***************************************************************************)
(* The records the three adapters build.  PostMetrics is a dataclass: its  *)
(* generated __init__ takes the thirteen fields by keyword, the first four *)
(* without default, and raises TypeError for any other keyword.            *)
(***************************************************************************)
MaxPosts == 3

POST_METRICS_FIELDS ==
    {"post_id", "post_url", "platform", "created_time", "caption", "views",
     "interactions", "reach", "follows", "link_clicks", "likes", "comments",
     "shares"}

POST_METRICS_DEFAULTS ==
    [caption |-> <<>>, views |-> 0, interactions |-> 0, reach |-> 0,
     follows |-> 0, link_clicks |-> 0, likes |-> 0, comments |-> 0,
     shares |-> 0]

\* PostMetrics(**kwargs)
PostMetrics(kwargs) ==
    IF /\ DOMAIN kwargs \subseteq POST_METRICS_FIELDS
       /\ POST_METRICS_FIELDS \ DOMAIN POST_METRICS_DEFAULTS \subseteq DOMAIN kwargs
    THEN [raised |-> FALSE,
          value |-> [f \in POST_METRICS_FIELDS |->
                        IF f \in DOMAIN kwargs THEN kwargs[f]
                        ELSE POST_METRICS_DEFAULTS[f]]]
    ELSE [raised |-> TRUE, value |-> EMPTY_DICT]

\* date_parser.parse(text).astimezone(BANGKOK_TZ), for a time given in UTC
astimezone_bangkok(t) ==
    [t EXCEPT !.day = t.day + (t.hour + 7) \div 24,
              !.hour = (t.hour + 7) % 24]

\* the keyword arguments FacebookAPI.get_posts_with_metrics builds of a post
facebook_kwargs(post) ==
    [post_id |-> post.id,
     post_url |-> dict_get(post, "permalink_url",
                           <<"h","t","t","p","s",":","/","/","f","a","c","e","b","o","o","k",".","c","o","m","/">> \o post.id),
     platform |-> FACEBOOK,
     created_time |-> astimezone_bangkok(post.created_time),
     caption |-> dict_get(post, "message", <<>>),
     views |-> 0,
     interactions |-> total_count(post, "likes") + total_count(post, "comments")
                          + shares_count(post),
     reach |-> 0, follows |-> 0, link_clicks |-> 0,
     likes |-> total_count(post, "likes"),
     comments |-> total_count(post, "comments"),
     shares |-> shares_count(post)]

\* a or b, for integers
int_or(a, b) == IF a # 0 THEN a ELSE b

\* the keyword arguments InstagramAPI.get_posts_with_metrics builds of a
\* post and of the insights read for it
instagram_kwargs(post, insights) ==
    [post_id |-> post.id,
     post_url |-> dict_get(post, "permalink",
                           <<"h","t","t","p","s",":","/","/","i","n","s","t","a","g","r","a","m",".","c","o","m","/","p","/">> \o post.id),
     platform |-> INSTAGRAM,
     created_time |-> astimezone_bangkok(post.timestamp),
     caption |-> dict_get(post, "caption", <<>>),
     views |-> insights.views,
     interactions |-> int_or(insights.likes, dict_get(post, "like_count", 0))
                          + int_or(insights.comments, dict_get(post, "comments_count", 0))
                          + insights.shares + insights.saved,
     reach |-> insights.reach, follows |-> 0, link_clicks |-> 0,
     likes |-> int_or(insights.likes, dict_get(post, "like_count", 0)),
     comments |-> int_or(insights.comments, dict_get(post, "comments_count", 0)),
     shares |-> insights.shares]

\* likes + retweets + replies + quotes of a tweet's public metrics
tweet_engagement(public_metrics) ==
    dict_get(public_metrics, "like_count", 0)
        + dict_get(public_metrics, "retweet_count", 0)
        + dict_get(public_metrics, "reply_count", 0)
        + dict_get(public_metrics, "quote_count", 0)

\* the keyword arguments TwitterAPI.get_posts_with_metrics builds of a tweet
twitter_kwargs(tweet) ==
    [post_id |-> str_int(tweet.id),
     post_url |-> <<"h","t","t","p","s",":","/","/","t","w","i","t","t","e","r",".","c","o","m","/","i","/","w","e","b","/","s","t","a","t","u","s","/">>
                      \o str_int(tweet.id),
     platform |-> TWITTER,
     created_time |-> dict_get(tweet, "created_at", "None"),
     engagement |-> tweet_engagement(dict_get(tweet, "public_metrics", EMPTY_DICT)),
     reach |-> dict_get(dict_get(tweet, "non_public_metrics", EMPTY_DICT),
                        "impression_count", 0),
     likes |-> dict_get(dict_get(tweet, "public_metrics", EMPTY_DICT), "like_count", 0),
     comments |-> dict_get(dict_get(tweet, "public_metrics", EMPTY_DICT), "reply_count", 0),
     shares |-> dict_get(dict_get(tweet, "public_metrics", EMPTY_DICT), "retweet_count", 0)
                    + dict_get(dict_get(tweet, "public_metrics", EMPTY_DICT), "quote_count", 0),
     impressions |-> dict_get(dict_get(tweet, "non_public_metrics", EMPTY_DICT),
                              "impression_count", 0)]

\* the keyword arguments an adapter builds of one listed post
adapter_kwargs(platform, listed) ==
    IF platform = FACEBOOK THEN facebook_kwargs(listed.post)
    ELSE IF platform = INSTAGRAM
    THEN instagram_kwargs(listed.post, get_media_insights(listed.insights).value)
    ELSE twitter_kwargs(listed.post)

\* the loop of get_posts_with_metrics over the listed posts:
\* results.append(PostMetrics(...)), an exception ends the call
RECURSIVE posts_loop(_, _, _)
posts_loop(platform, results, listed) ==
    IF listed = <<>> THEN [raised |-> FALSE, value |-> results]
    ELSE IF PostMetrics(adapter_kwargs(platform, listed[1])).raised
    THEN [raised |-> TRUE, value |-> EMPTY_DICT]
    ELSE posts_loop(platform,
                    Append(results, PostMetrics(adapter_kwargs(platform, listed[1])).value),
                    Tail(listed))

\* get_posts_with_metrics of the adapter of a platform, given the posts
\* its listing call returned
get_posts_with_metrics(platform, listed) == posts_loop(platform, <<>>, listed)

\* the keyword arguments TwitterAPI.get_metrics_for_url builds of the dict
\* of get_tweet_metrics
twitter_url_kwargs(tweet_id, metrics) ==
    [post_id |-> tweet_id,
     post_url |-> <<"h","t","t","p","s",":","/","/","t","w","i","t","t","e","r",".","c","o","m","/","i","/","w","e","b","/","s","t","a","t","u","s","/">>
                      \o tweet_id,
     platform |-> TWITTER,
     created_time |-> dict_get(metrics, "created_at", "None"),
     engagement |-> dict_get(metrics, "engagement", 0),
     reach |-> dict_get(metrics, "impressions", 0),
     likes |-> dict_get(metrics, "likes", 0),
     comments |-> dict_get(metrics, "replies", 0),
     shares |-> dict_get(metrics, "retweets", 0) + dict_get(metrics, "quotes", 0),
     impressions |-> dict_get(metrics, "impressions", 0)]

\* the dict get_tweet_metrics returns of a tweet the platform has
tweet_metrics(tweet) ==
    [likes |-> dict_get(tweet.public_metrics, "like_count", 0),
     retweets |-> dict_get(tweet.public_metrics, "retweet_count", 0),
     replies |-> dict_get(tweet.public_metrics, "reply_count", 0),
     quotes |-> dict_get(tweet.public_metrics, "quote_count", 0),
     impressions |-> dict_get(dict_get(tweet, "non_public_metrics", EMPTY_DICT),
                              "impression_count", 0),
     engagement |-> tweet_engagement(tweet.public_metrics),
     created_at |-> tweet.created_at]

NOT_FOUND == [found |-> FALSE]

\* get_metrics_for_url of an adapter for a URL that names the listed post:
\* the record, or None; `except Exception` of the Twitter adapter turns
\* whatever the constructor raises into None
get_metrics_for_url(platform, listed) ==
    IF platform = TWITTER
    THEN IF PostMetrics(twitter_url_kwargs(str_int(listed.post.id),
                                           tweet_metrics(listed.post))).raised
         THEN NOT_FOUND
         ELSE [found |-> TRUE,
               value |-> PostMetrics(twitter_url_kwargs(str_int(listed.post.id),
                                                        tweet_metrics(listed.post))).value]
    ELSE IF PostMetrics(adapter_kwargs(platform, listed)).raised
    THEN NOT_FOUND
    ELSE [found |-> TRUE, value |-> PostMetrics(adapter_kwargs(platform, listed)).value]

(***************************************************************************)
(* One call of an adapter, for every platform and every listing of up to   *)
(* MaxPosts posts.  The sheet is not used.                                 *)
(***************************************************************************)
TIME_UTC == [year |-> 2024, month |-> 3, day |-> 9, hour |-> 20, minute |-> 5]

FacebookListed ==
    {[post |-> [id |-> <<"1","0","0","_","1">>, created_time |-> TIME_UTC,
                message |-> CAPTION, permalink_url |-> URL_FB,
                shares |-> [count |-> 4]]],
     [post |-> [id |-> <<"1","0","0","_","2">>, created_time |-> TIME_A]],
     [post |-> [id |-> <<"1","0","0","_","3">>, created_time |-> TIME_A,
                message |-> CAPTION]]}

InstagramListed ==
    {[post |-> [id |-> <<"1","7">>, timestamp |-> TIME_UTC, caption |-> CAPTION,
                permalink |-> URL_IG, like_count |-> 5, comments_count |-> 1],
      insights |-> response(MEDIA_BODY)],
     [post |-> [id |-> <<"1","8">>, timestamp |-> TIME_A, like_count |-> 2],
      insights |-> HTTP_ERROR],
     [post |-> [id |-> <<"1","9">>, timestamp |-> TIME_A],
      insights |-> response(BODY_WITHOUT_DATA)]}

TwitterListed ==
    {[post |-> [id |-> 1, text |-> CAPTION, created_at |-> TIME_UTC,
                public_metrics |-> [like_count |-> 2, retweet_count |-> 1,
                                    reply_count |-> 0, quote_count |-> 0]]],
     [post |-> [id |-> 2, text |-> CAPTION, created_at |-> TIME_A,
                public_metrics |-> EMPTY_DICT,
                non_public_metrics |-> [impression_count |-> 9]]],
     [post |-> [id |-> 3, text |-> <<>>, created_at |-> TIME_A,
                public_metrics |-> [like_count |-> 0]]]}

listed_by(platform) ==
    IF platform = FACEBOOK THEN FacebookListed
    ELSE IF platform = INSTAGRAM THEN InstagramListed
    ELSE TwitterListed

Listings(platform) ==
    UNION {[1..n -> listed_by(platform)] : n \in 0..MaxPosts}

InitAdapters ==
    /\ sheet = <<>>
    /\ last = [op |-> "init"]

GetPostsWithMetrics(platform) ==
    /\ \E listed \in Listings(platform) :
         \E res \in {get_posts_with_metrics(platform, listed)} :
           last' = [op |-> "get_posts_with_metrics", platform |-> platform,
                    listed |-> listed, raised |-> res.raised,
                    value |-> res.value]
    /\ UNCHANGED sheet

GetMetricsForUrl(platform) ==
    /\ \E listed \in listed_by(platform) :
         \E res \in {get_metrics_for_url(platform, listed)} :
           last' = [op |-> "get_metrics_for_url", platform |-> platform,
                    listed |-> <<listed>>, raised |-> FALSE,
                    value |-> IF res.found THEN <<res.value>> ELSE <<>>]
    /\ UNCHANGED sheet

NextAdapters ==
    \E platform \in {FACEBOOK, INSTAGRAM, TWITTER} :
        GetPostsWithMetrics(platform) \/ GetMetricsForUrl(platform)

SpecAdapters == InitAdapters /\ [][NextAdapters]_vars

\* C25: for each platform, get_posts_with_metrics returns without raising
\* one record of the thirteen PostMetrics fields per listed post, and
\* get_metrics_for_url returns such a record for a post that is found.
C25_OneRecordPerListedPost ==
    last.op \in {"get_posts_with_metrics", "get_metrics_for_url"} =>
        /\ ~last.raised
        /\ Len(last.value) = Len(last.listed)
        /\ \A i \in 1..Len(last.value) :
               DOMAIN last.value[i] = POST_METRICS_FIELDS

\* the Facebook and Instagram adapters return one record per listed post
C25_GraphAdaptersReturnRecords ==
    (/\ last.op \in {"get_posts_with_metrics", "get_metrics_for_url"}
     /\ last.platform # TWITTER) =>
        /\ ~last.raised
        /\ Len(last.value) = Len(last.listed)
        /\ \A i \in 1..Len(last.value) :
               /\ DOMAIN last.value[i] = POST_METRICS_FIELDS
               /\ last.value[i].platform = last.platform
               /\ last.value[i].post_id = last.listed[i].post.id

\* the Twitter adapter never returns a record of a tweet
C25_TwitterAdapterReturnsNoRecord ==
    (/\ last.op \in {"get_posts_with_metrics", "get_metrics_for_url"}
     /\ last.platform = TWITTER) =>
        /\ last.value = <<>>
        /\ last.raised <=> (last.op = "get_posts_with_metrics" /\ last.listed # <<>>)

\* the Instagram adapter has returned the records of two listed posts
C25_TwoInstagramRecords ==
    /\ last.op = "get_posts_with_metrics"
    /\ last.platform = INSTAGRAM
    /\ ~last.raised
    /\ Len(last.value) = 2
    /\ last.value[1].views = 50
    /\ last.value[1].created_time.day = TIME_UTC.day + 1

(***************************************************************************)
(* Worksheets in which several rows hold the same post: the same URL typed *)
(* twice, or once with www. and once without.                              *)
(***************************************************************************)
DuplicateSheets ==
    {<<EXPECTED_HEADERS,
       new_row(post_metrics(URL_FB, FACEBOOK, METRICS_A)),
       new_row(post_metrics(URL_FB_BARE, FACEBOOK, METRICS_A))>>,
     <<EXPECTED_HEADERS,
       new_row(post_metrics(URL_FB_BARE, FACEBOOK, METRICS_B)),
       NOTE_ROW,
       new_row(post_metrics(URL_FB, FACEBOOK, METRICS_A))>>,
     <<EXPECTED_HEADERS,
       new_row(post_metrics(URL_X, TWITTER, METRICS_A)),
       new_row(post_metrics(URL_FB, FACEBOOK, METRICS_A)),
       new_row(post_metrics(URL_TWITTER, TWITTER, METRICS_A)),
       new_row(post_metrics(URL_FB_CASE, FACEBOOK, METRICS_A))>>,
     <<new_row(post_metrics(URL_FB, FACEBOOK, METRICS_A)),
       new_row(post_metrics(URL_FB, FACEBOOK, METRICS_A)),
       new_row(post_metrics(URL_FB, FACEBOOK, METRICS_A))>>,
     <<EXPECTED_HEADERS,
       new_row(post_metrics(URL_TWITTER, TWITTER, METRICS_B)),
       TYPED_ROW,
       new_row(post_metrics(URL_X, TWITTER, METRICS_B))>>,
     <<EXPECTED_HEADERS,
       new_row(post_metrics(URL_FB_QUERY, FACEBOOK, METRICS_A)),
       new_row(post_metrics(URL_FB_QUERY, FACEBOOK, METRICS_A)),
       new_row(post_metrics(URL_FB, FACEBOOK, METRICS_A))>>}

DuplicatePosts ==
    Posts \cup {post_metrics(URL_X, TWITTER, METRICS_B),
                post_metrics(URL_TWITTER, TWITTER, METRICS_A),
                post_metrics(URL_FB_CASE, FACEBOOK, METRICS_A)}

InitDuplicates ==
    /\ sheet \in DuplicateSheets
    /\ last = [op |-> "init"]

FindRowByUrl(post_url) ==
    /\ \E res \in {find_row_by_url(sheet, post_url)} :
           last' = [op |-> "find_row_by_url", post_url |-> post_url,
                    raised |-> res.raised, found |-> res.found,
                    row_number |-> res.row.row_number]
    /\ UNCHANGED sheet

NextDuplicates ==
    \/ \E metrics \in DuplicatePosts : FindRowByUrl(metrics.post_url)
    \/ \E metrics \in DuplicatePosts : UpdateOrAddPost(metrics)

SpecDuplicates == InitDuplicates /\ [][NextDuplicates]_vars

\* the lowest number of a set of row numbers
lowest(rows) == CHOOSE i \in rows : \A j \in rows : i <= j

\* the URL the step looked up or reconciled
searched_url ==
    IF last'.op = "find_row_by_url" THEN last'.post_url ELSE last'.metrics.post_url

\* the rows of the sheet, row 1 included, whose URL cell has the normalized
\* URL of post_url
rows_of_identity(sh, post_url) ==
    {i \in 1..Len(sh) :
        /\ url_cell(sh, i) # <<>>
        /\ _normalize_url(url_cell(sh, i)) = _normalize_url(post_url)}

\* C26: when several rows of the sheet have the normalized URL searched
\* for, find_row_by_url returns the one of the lowest row number, the
\* update goes to that row, and every other row stays as it was.
C26_LowestMatchingRow ==
    [][Cardinality(rows_of_identity(sheet, searched_url)) > 1 =>
           /\ last'.row_number = lowest(rows_of_identity(sheet, searched_url))
           /\ Len(sheet') = Len(sheet)
           /\ \A i \in 1..Len(sheet) :
                  i # last'.row_number => sheet'[i] = sheet[i]]_vars

\* the same of the rows below row 1: the lowest of them is returned and
\* updated, every other row stays as it was
C26_LowestMatchingRowBelowFirst ==
    [][matching_rows(sheet, searched_url) # {} =>
           /\ last'.row_number = lowest(matching_rows(sheet, searched_url))
           /\ Len(sheet') = Len(sheet)
           /\ \A i \in 1..Len(sheet) :
                  i # last'.row_number => sheet'[i] = sheet[i]
           /\ last'.op = "find_row_by_url" => last'.found /\ sheet' = sheet
           /\ last'.op = "update_or_add_post" =>
                  /\ last'.action = "updated"
                  /\ holds_metrics(sheet', last'.row_number, last'.metrics)]_vars

\* the second row of the post still holds the metrics it had, after the
\* first one was updated
C26_LaterDuplicateKept ==
    /\ last.op = "update_or_add_post"
    /\ last.action = "updated"
    /\ last.row_number = 3
    /\ Cardinality(matching_rows(sheet, last.metrics.post_url)) = 2
    /\ holds_metrics(sheet, 3, METRICS_B)
    /\ holds_metrics(sheet, 5, METRICS_A)

\* C27: every numeric metric of every row get_all_rows returns is a
\* non-negative integer, whatever text the metric cells hold.
C27_MetricsNotNegative ==
    last.op = "get_all_rows" =>
        \A i \in 1..Len(last.rows) :
            \A k \in 1..Len(METRIC_FIELDS) :
                /\ last.rows[i][METRIC_FIELDS[k]] \in Int
                /\ last.rows[i][METRIC_FIELDS[k]] >= 0

\* every metric read is an integer, and it is negative only where the cell
\* is a minus sign before digits
C27_NegativeOnlyOfMinusSign ==
    last.op = "get_all_rows" =>
        \A i \in 1..Len(last.rows) :
            \A col \in COL_VIEWS..COL_SHARES :
                /\ last.rows[i][METRIC_FIELDS[col - COL_VIEWS + 1]] \in Int
                /\ last.rows[i][METRIC_FIELDS[col - COL_VIEWS + 1]] < 0 =>
                       /\ strip(replace(cell_or_empty(sheet[2], col), <<",">>, <<>>))[1] = "-"
                       /\ 0 - last.rows[i][METRIC_FIELDS[col - COL_VIEWS + 1]]
                              = digits_value(Tail(strip(replace(
                                    cell_or_empty(sheet[2], col), <<",">>, <<>>))), 0)

\* get_all_rows has read the reach cell " 42 " as 42
C27_ReadsPaddedCell ==
    /\ last.op = "get_all_rows"
    /\ cell_or_empty(sheet[2], COL_REACH) = <<" ","4","2"," ">>
    /\ Len(last.rows) = 1
    /\ last.rows[1].reach = 42
    /\ last.rows[1].views = 0

(***************************************************************************)
(* The two normalizations on malformed text: brackets, colons, slashes     *)
(* and question marks in any order, alone and after "http://".             *)
(***************************************************************************)
URL_CHARS == {"[", "]", "/", ":", "?", "a"}

RECURSIVE url_texts(_)
url_texts(n) ==
    IF n = 0 THEN {<<>>}
    ELSE url_texts(n - 1)
         \cup {w \o <<c>> : w \in {v \in url_texts(n - 1) : Len(v) = n - 1},
                             c \in URL_CHARS}

HTTP == <<"H","t","t","p",":","/","/">>

MalformedUrls ==
    url_texts(MaxLabelLen) \cup {HTTP \o t : t \in url_texts(MaxLabelLen)}

InitMalformed ==
    /\ sheet = <<>>
    /\ \E url \in MalformedUrls : last = [op |-> "input", url |-> url]

ParserNormalizeText ==
    /\ last.op = "input"
    /\ \E res \in {normalize_url(last.url)} :
           last' = [op |-> "URLParser.normalize_url", url |-> last.url,
                    raised |-> res.raised, value |-> res.value]
    /\ UNCHANGED sheet

StoreNormalizeText ==
    /\ last.op = "input"
    /\ last' = [op |-> "_normalize_url", url |-> last.url,
                raised |-> FALSE, value |-> _normalize_url(last.url)]
    /\ UNCHANGED sheet

NextMalformed == ParserNormalizeText \/ StoreNormalizeText

SpecMalformed == InitMalformed /\ [][NextMalformed]_vars

\* C28: URLParser.normalize_url and the store's _normalize_url return a
\* string, possibly empty, for every input string, and never raise.
C28_NormalizationTotal ==
    last.op \in {"URLParser.normalize_url", "_normalize_url"} =>
        /\ ~last.raised
        /\ last.value \in Seq(STRING)

\* the text after "//" up to the next "/" or "?" has one kind of bracket only
unmatched_bracket(url) ==
    /\ startswith(lower(url), lower(HTTP))
    /\ \E c \in {"[", "]"} :
           LET host == before_char(before_char(suffix(url, Len(HTTP)), "/"), "?")
           IN  contains(host, <<c>>) /\ \A d \in {"[", "]"} \ {c} : ~contains(host, <<d>>)

\* the store's normalization never raises, and URLParser.normalize_url
\* raises for every URL whose host has an unmatched bracket
C28_ParserRaisesOnBracket ==
    /\ last.op = "_normalize_url" => ~last.raised /\ last.value \in Seq(STRING)
    /\ (last.op = "URLParser.normalize_url" /\ unmatched_bracket(last.url)) =>
           last.raised

\* URLParser.normalize_url has returned the text of a URL without host
C28_ParserNormalizedMalformed ==
    /\ last.op = "URLParser.normalize_url"
    /\ last.url = HTTP \o <<":", "/">>
    /\ ~last.raised
    /\ last.value = <<"h","t","t","p",":","/","/",":">>

(***************************************************************************)
(* find_row_by_url on sheets whose rows hold URLs of different hosts and   *)
(* paths that the text replacements of _normalize_url bring together.      *)
(***************************************************************************)
URL_BOX == HTTPS \o <<"b","o","x",".","c","o","m","/","a">>

URL_BOTWITTER == HTTPS \o <<"b","o","t","w","i","t","t","e","r",".","c","o","m","/","a">>

URL_AWWW == HTTPS \o <<"a","w","w","w",".","b",".","c","o","m","/","p">>

URL_AB == HTTPS \o <<"a","b",".","c","o","m","/","p">>

URL_AB_WWW == HTTPS \o <<"W","W","W",".","a","b",".","c","o","m","/","P","/">>

URL_AB_PATH == HTTPS \o <<"a","b",".","c","o","m","/","p","/","w","w","w",".","q">>

URL_AB_Q == HTTPS \o <<"a","b",".","c","o","m","/","p","/","q">>

MergeUrls ==
    {URL_BOX, URL_BOTWITTER, URL_AWWW, URL_AB, URL_AB_WWW, URL_AB_PATH,
     URL_AB_Q, URL_X, URL_TWITTER}

MergeSheets ==
    {<<EXPECTED_HEADERS, new_row(post_metrics(u, OTHER_PLATFORM, METRICS_A))>> :
         u \in MergeUrls}
    \cup {<<EXPECTED_HEADERS,
            new_row(post_metrics(u, OTHER_PLATFORM, METRICS_A)),
            new_row(post_metrics(v, OTHER_PLATFORM, METRICS_B))>> :
              u \in {URL_BOX, URL_AB, URL_X}, v \in MergeUrls}

InitMerge ==
    /\ sheet \in MergeSheets
    /\ last = [op |-> "init"]

NextMerge == \E post_url \in MergeUrls : FindRowByUrl(post_url)

SpecMerge == InitMerge /\ [][NextMerge]_vars

\* the host without a leading "www.", x.com read as twitter.com
plain_host(netloc) ==
    normalized_host(IF startswith(netloc, WWW_DOT)
                    THEN suffix(netloc, Len(WWW_DOT))
                    ELSE netloc)

\* host and path of a URL, letter case, the www. host prefix, the x.com
\* alias and the trailing slash set aside
host_and_path(url) ==
    [host |-> plain_host(urlparse(lower(strip(url))).netloc),
     path |-> rstrip(urlparse(lower(strip(url))).path, {"/"})]

\* C29: find_row_by_url returns a row only if the URL of the row and the
\* URL searched for have the same host and the same path, once letter
\* case, the www. host prefix, the x.com alias and the trailing slash are
\* set aside.
C29_FoundRowHasSameHostAndPath ==
    (last.op = "find_row_by_url" /\ last.found) =>
        host_and_path(url_cell(sheet, last.row_number)) = host_and_path(last.post_url)

\* the row found is the first row below row 1 whose URL cell gives the
\* text of the searched URL under _normalize_url
C29_FoundRowHasSameText ==
    last.op = "find_row_by_url" =>
        /\ last.found <=> matching_rows(sheet, last.post_url) # {}
        /\ last.found =>
               /\ last.row_number = lowest(matching_rows(sheet, last.post_url))
               /\ _normalize_url(url_cell(sheet, last.row_number))
                      = _normalize_url(last.post_url)

\* the row of a post is found by its URL written with www., capitals and
\* a trailing slash, after the row of another post
C29_FoundByVariant ==
    /\ last.op = "find_row_by_url"
    /\ last.post_url = URL_AB_WWW
    /\ last.found
    /\ last.row_number = 3
    /\ url_cell(sheet, 3) = URL_AB
    /\ url_cell(sheet, 2) = URL_BOX

(***************************************************************************)
(* The pagination loops of FacebookAPI.get_page_posts and                  *)
(* InstagramAPI.get_media_posts.  A step is one pass of the while loop:    *)
(* one page request and what the loop does with the answer.  last holds    *)
(* the local variables of the call; a post is "new" or "old" as its time   *)
(* is after or before `since`.  requests counts the page requests up to    *)
(* MaxRequests.                                                            *)
(***************************************************************************)
MaxLimit == 2

MaxRequests == 4

AFTER_EQ == <<"a","f","t","e","r","=">>

\* the cursor the Facebook loop reads of the next link: the text after
\* "after=" up to the next "&"; the empty text stands for None as well
after_of_next(next_url) ==
    IF contains(next_url, AFTER_EQ)
    THEN before_char(suffix(next_url, find(next_url, AFTER_EQ) + Len(AFTER_EQ)), "&")
    ELSE <<>>

has_key(d, key) == key \in DOMAIN d

\* the call before its first request
loop_start(op, since, limit) ==
    [op |-> op, since |-> since, limit |-> limit,
     pc |-> IF 0 < limit THEN "loop" ELSE "done",
     posts |-> <<>>, after |-> <<>>, requests |-> 0, raised |-> FALSE,
     returned |-> <<>>]

\* return posts[:limit]
loop_return(st, posts, after) ==
    [st EXCEPT !.pc = "done", !.posts = posts, !.after = after,
               !.returned = prefix(posts, st.limit)]

\* the loop goes on while len(posts) < limit
loop_again(st, posts, after) ==
    IF Len(posts) < st.limit
    THEN [st EXCEPT !.posts = posts, !.after = after]
    ELSE loop_return(st, posts, after)

\* _make_request raised: the exception leaves the method
loop_raised(st) == [st EXCEPT !.pc = "done", !.raised = TRUE]

\* one more page request was issued
requested(st) ==
    [st EXCEPT !.requests = IF st.requests < MaxRequests
                            THEN st.requests + 1 ELSE st.requests]

\* the part of the Facebook loop after posts.extend(...)
page_posts_paging(st, posts, paging) ==
    IF has_key(paging, "next") /\ Len(posts) < st.limit
    THEN IF after_of_next(paging.next) = <<>>
         THEN loop_return(st, posts, after_of_next(paging.next))
         ELSE loop_again(st, posts, after_of_next(paging.next))
    ELSE loop_return(st, posts, st.after)

\* one pass of the loop of get_page_posts
page_posts_step(st, outcome) ==
    IF outcome.status # "ok" THEN loop_raised(requested(st))
    ELSE page_posts_paging(requested(st),
                           st.posts \o dict_get(outcome.body, "data", <<>>),
                           dict_get(outcome.body, "paging", EMPTY_DICT))

\* the posts of a page up to the first one older than since
RECURSIVE new_posts(_)
new_posts(data) ==
    IF data = <<>> \/ data[1] = "old" THEN <<>>
    ELSE <<data[1]>> \o new_posts(Tail(data))

\* the part of the Instagram loop after the loop over the page
media_posts_paging(st, posts, paging) ==
    IF has_key(paging, "next") /\ Len(posts) < st.limit
    THEN IF dict_get(dict_get(paging, "cursors", EMPTY_DICT), "after", <<>>) = <<>>
         THEN loop_return(st, posts, <<>>)
         ELSE loop_again(st, posts, paging.cursors.after)
    ELSE loop_return(st, posts, st.after)

\* one pass of the loop of get_media_posts
media_posts_step(st, outcome) ==
    IF outcome.status # "ok" THEN loop_raised(requested(st))
    ELSE IF st.since /\ new_posts(dict_get(outcome.body, "data", <<>>))
                            # dict_get(outcome.body, "data", <<>>)
    THEN loop_return(requested(st),
                     st.posts \o new_posts(dict_get(outcome.body, "data", <<>>)),
                     st.after)
    ELSE media_posts_paging(requested(st),
                            st.posts \o dict_get(outcome.body, "data", <<>>),
                            dict_get(outcome.body, "paging", EMPTY_DICT))

\* the pages a platform may answer with
PageData == {<<>>, <<"new">>, <<"new", "new">>, <<"new", "old">>}

NEXT_WITH_CURSOR == <<"u","?","a","f","t","e","r","=","c","&","l","=","2">>

NEXT_WITH_OTHER_CURSOR == <<"u","?","l","=","2","&","a","f","t","e","r","=","d">>

NEXT_WITHOUT_CURSOR == <<"u","?","l","=","2">>

NEXT_EMPTY_CURSOR == <<"u","?","a","f","t","e","r","=","&","l","=","2">>

page_bodies(pagings) ==
    {[data |-> d, paging |-> p] : d \in PageData, p \in pagings}
        \cup {[data |-> d] : d \in PageData}
        \cup {[paging |-> p] : p \in pagings}

FacebookPages ==
    {HTTP_ERROR}
    \cup {response(b) : b \in page_bodies(
              {[next |-> u] : u \in {NEXT_WITH_CURSOR, NEXT_WITH_OTHER_CURSOR,
                                     NEXT_WITHOUT_CURSOR, NEXT_EMPTY_CURSOR}}
              \cup {[previous |-> NEXT_WITH_CURSOR]})}

InstagramPages ==
    {HTTP_ERROR}
    \cup {response(b) : b \in page_bodies(
              {[next |-> NEXT_WITH_CURSOR, cursors |-> [after |-> <<"c">>]],
               [next |-> NEXT_WITH_OTHER_CURSOR, cursors |-> [after |-> <<"d">>]],
               [next |-> NEXT_WITH_CURSOR, cursors |-> [before |-> <<"b">>]],
               [next |-> NEXT_WITH_CURSOR],
               [cursors |-> [after |-> <<"c">>]]})}

InitPages ==
    /\ sheet = <<>>
    /\ last = [op |-> "init", pc |-> "done"]

GetPagePosts(since, limit) ==
    /\ last.pc = "done"
    /\ last' = loop_start("get_page_posts", since, limit)
    /\ UNCHANGED sheet

GetMediaPosts(since, limit) ==
    /\ last.pc = "done"
    /\ last' = loop_start("get_media_posts", since, limit)
    /\ UNCHANGED sheet

PagePostsStep(outcome) ==
    /\ last.op = "get_page_posts"
    /\ last.pc = "loop"
    /\ last' = page_posts_step(last, outcome)
    /\ UNCHANGED sheet

MediaPostsStep(outcome) ==
    /\ last.op = "get_media_posts"
    /\ last.pc = "loop"
    /\ last' = media_posts_step(last, outcome)
    /\ UNCHANGED sheet

NextPages ==
    \/ \E since \in BOOLEAN, limit \in 0..MaxLimit : GetPagePosts(since, limit)
    \/ \E since \in BOOLEAN, limit \in 0..MaxLimit : GetMediaPosts(since, limit)
    \/ \E outcome \in FacebookPages : PagePostsStep(outcome)
    \/ \E outcome \in InstagramPages : MediaPostsStep(outcome)

SpecPages == InitPages /\ [][NextPages]_vars

\* the loop is run whenever it can be
SpecPagesFair == SpecPages /\ WF_vars(NextPages)

in_loop == last.op \in {"get_page_posts", "get_media_posts"}

\* C30: the loops issue at most `limit` page requests and return at most
\* `limit` posts.
C30_AtMostLimitRequests ==
    in_loop =>
        /\ last.requests <= last.limit
        /\ Len(last.returned) <= last.limit

\* C30, termination: a call that is in the loop comes to its end, whatever
\* pages the platform answers with
C30_LoopEnds == (in_loop /\ last.pc = "loop") ~> (last.pc = "done")

\* a call returns at most `limit` posts, and a pass that ends with an empty
\* page and a cursor leaves the call in the loop with the posts it had
C30_EmptyPageKeepsLooping ==
    [][(in_loop' /\ last.pc = "loop") =>
           /\ Len(last'.returned) <= last'.limit
           /\ last'.pc = "done" => (last'.raised \/ last'.returned = prefix(last'.posts, last'.limit))
           /\ (/\ ~last'.raised
               /\ last'.after # <<>>
               /\ last'.posts = last.posts
               /\ last'.returned = <<>>
               /\ last'.pc = "loop") => ENABLED NextPages]_vars

\* a call with limit 2 has returned two posts after two page requests
C30_TwoPagesRead ==
    /\ last.op = "get_media_posts"
    /\ last.pc = "done"
    /\ last.limit = 2
    /\ last.requests = 2
    /\ ~last.raised
    /\ Len(last.returned) = 2

=============================================================================
